---------------------------- MODULE Spec2Model ----------------------------
(***************************************************************************)
(* A model of the solsnake body-following and length-economy simulation:   *)
(* the Snake class (trail buffer, segment spacing, growth, boost           *)
(* consumption, passive decay, derived speed) driven by the Game loop,     *)
(* the polled input state and the debug keys.                              *)
(*                                                                         *)
(* The program computes in IEEE doubles.  The model computes in exact      *)
(* fixed point:                                                            *)
(*   time      TU units per second   (1/30 s, the largest frame step, is   *)
(*             MaxStep units)                                              *)
(*   length    LU units per unit of length (LENGTH_COST_PER_SECOND * dt    *)
(*             and decayRate * accumulator are then whole numbers)         *)
(*   distance  PU units per world unit                                     *)
(*   speed     PU units per second                                         *)
(*   angle     AU units per radian                                         *)
(* Divisions that are not exact round to nearest (RoundDiv); floating      *)
(* point rounding itself is not modelled.                                  *)
(***************************************************************************)
EXTENDS Integers, Sequences, FiniteSets, TLC

VARIABLES
  snake,        \* Game.playerSnake: the Snake instance (a record of its fields)
  isRunning,    \* Game.isRunning
  pending,      \* number of requestAnimationFrame(gameLoop) callbacks pending
  frameCount,   \* Game.debugFrameCount
  wantsBoost,   \* InputHandler: Space / mouse / touch held (isBoostPressed())
  moveDir,      \* InputHandler: the direction getMovementInput() returns
  events,       \* number of debug-key, input and lifecycle events so far
  held          \* history: the boost run in progress (see NoRun, holdStart)

vars == <<snake, isRunning, pending, frameCount, wantsBoost, moveDir, events, held>>

---------------------------------------------------------------------------
(* Fixed-point scales *)

MaxStep == 100                \* time units in 1/30 s, the clamp of gameLoop
TU == 30 * MaxStep            \* time units per second
LU == 100 * TU                \* length units per unit of length
PU == 10 * 100                \* distance units per world unit (and speed)
AU == 100 * 100               \* angle units per radian
PI == (31416 * AU) \div 10000 \* Math.PI in angle units

Abs(x) == IF x < 0 THEN -x ELSE x
Max(a, b) == IF a >= b THEN a ELSE b
Min(a, b) == IF a <= b THEN a ELSE b
Sign(x) == IF x > 0 THEN 1 ELSE IF x < 0 THEN -1 ELSE 0

\* n / d rounded to the nearest integer, halves away from zero (d > 0)
RoundDiv(n, d) ==
  IF n >= 0 THEN (2 * n + d) \div (2 * d) ELSE -((2 * (-n) + d) \div (2 * d))

\* Math.floor of a length held in length units
Floor(len) == len \div LU

\* integer square root: the largest r with r * r <= n
RECURSIVE ISqrtIter(_, _)
ISqrtIter(n, x) ==
  LET y == (x + n \div x) \div 2
  IN IF y >= x THEN x ELSE ISqrtIter(n, y)
ISqrt(n) == IF n <= 0 THEN 0 ELSE IF n < 4 THEN 1 ELSE ISqrtIter(n, n \div 2)

---------------------------------------------------------------------------
(* Math.sin, Math.cos, Math.atan2, Math.log, Math.log10 in fixed point *)

\* the angle a brought into [-PI, PI), a multiple of 2 PI away
WrapAngle(a) == ((a + PI) % (2 * PI)) - PI

\* sin x for x in [-PI/2, PI/2] (angle units), result in 1/AU:
\* x - x^3/3! + x^5/5! - x^7/7! + x^9/9!
SinSeries(x) ==
  LET x2 == RoundDiv(x * x, AU)
      t3 == RoundDiv(x * x2, 6 * AU)
      t5 == RoundDiv(t3 * x2, 20 * AU)
      t7 == RoundDiv(t5 * x2, 42 * AU)
      t9 == RoundDiv(t7 * x2, 72 * AU)
  IN x - t3 + t5 - t7 + t9

\* cos x for x in [-PI/2, PI/2]: 1 - x^2/2! + x^4/4! - x^6/6! + x^8/8!
CosSeries(x) ==
  LET x2 == RoundDiv(x * x, AU)
      t2 == RoundDiv(x2, 2)
      t4 == RoundDiv(t2 * x2, 12 * AU)
      t6 == RoundDiv(t4 * x2, 30 * AU)
      t8 == RoundDiv(t6 * x2, 56 * AU)
  IN AU - t2 + t4 - t6 + t8

Sin(a) ==
  LET x == WrapAngle(a)
  IN IF 2 * x > PI THEN SinSeries(PI - x)
     ELSE IF 2 * x < -PI THEN SinSeries(-PI - x)
     ELSE SinSeries(x)

Cos(a) ==
  LET x == WrapAngle(a)
  IN IF 2 * x > PI THEN -CosSeries(PI - x)
     ELSE IF 2 * x < -PI THEN -CosSeries(-PI - x)
     ELSE CosSeries(x)

\* Math.atan2(y, x) on the directions the input handler delivers: the eight
\* keyboard directions, the default (1, 0), and the zero vector
Atan2(y, x) ==
  IF y = 0 THEN (IF x >= 0 THEN 0 ELSE PI)
  ELSE IF x = 0 THEN (IF y > 0 THEN PI \div 2 ELSE -(PI \div 2))
  ELSE IF x > 0 THEN (IF y > 0 THEN PI \div 4 ELSE -(PI \div 4))
  ELSE (IF y > 0 THEN (3 * PI) \div 4 ELSE -((3 * PI) \div 4))

\* logarithms: arguments and results carry FS units per 1
FS == 64 * 64

\* v > 0 doubled or halved into [FS, 2 FS): <<mantissa, exponent>>
RECURSIVE Log2Norm(_, _)
Log2Norm(v, e) ==
  IF v >= 2 * FS THEN Log2Norm(v \div 2, e + 1)
  ELSE IF v < FS THEN Log2Norm(2 * v, e - 1)
  ELSE <<v, e>>

\* the fractional bits of log2 of the mantissa m, by repeated squaring
RECURSIVE Log2Frac(_, _, _)
Log2Frac(m, bit, acc) ==
  IF bit = 0 THEN acc
  ELSE LET sq == (m * m) \div FS
       IN IF sq >= 2 * FS
          THEN Log2Frac(sq \div 2, bit \div 2, acc + bit)
          ELSE Log2Frac(sq, bit \div 2, acc)

Log2(v) ==
  LET n == Log2Norm(v, 0)
  IN n[2] * FS + Log2Frac(n[1], FS \div 2, 0)

\* Math.log(v) = log2(v) * ln 2;  Math.log10(v) = log2(v) * log10(2)
Ln(v) == RoundDiv(Log2(v) * 6931, 10000)
Log10(v) == RoundDiv(Log2(v) * 3010, 10000)

---------------------------------------------------------------------------
(* CONFIG, src/src/config.js *)

INITIAL_LENGTH == 5
SEGMENT_GAP == 14
BASE_SPEED == 120
MIN_SPEED == 85
SPEED_FLOOR_LENGTH == 2000
TURN_RATE == 4
MIN_LENGTH_TO_BOOST == 5
DECAY_FLOOR == 50
LENGTH_BOOST_AMOUNT == 10
BIG_LENGTH_BOOST == 25
PELLET_VALUE == 1
WORLD_WIDTH == 4000
WORLD_HEIGHT == 3000
WORLD_MARGIN == 50
maxTrailLength == 5000
\* LENGTH_COST_PER_SECOND 0.7, in length units per second
LENGTH_COST_PER_SECOND == (7 * LU) \div 10
\* BOOST_SPEED_MULTIPLIER 1.8, in tenths
BOOST_SPEED_MULTIPLIER == 2 * 9
\* Math.min(CONFIG.PHYSICS.TRAIL_SAMPLE_RATE, 2.0) = 0.8 world units
minSampleDistance == Min((8 * PU) \div 10, 2 * PU)

---------------------------------------------------------------------------
(* Snake: derived curves and segment spacing *)

Vec(x, y) == [x |-> x, y |-> y]

\* Vector2D.distanceTo
distanceTo(a, b) ==
  LET dx == a.x - b.x
      dy == a.y - b.y
  IN ISqrt(dx * dx + dy * dy)

\* Vector2D.magnitude
magnitude(v) == ISqrt(v.x * v.x + v.y * v.y)

\* Vector2D.fromAngle(angle, magnitude)
fromAngle(angle, mag) ==
  Vec(RoundDiv(Cos(angle) * mag, AU), RoundDiv(Sin(angle) * mag, AU))

\* Variant of calculateSpeed that keeps interpolating past SPEED_FLOOR_LENGTH
calculateSpeedNoFloor(len) ==
  IF len <= 5 * LU THEN BASE_SPEED * PU
  ELSE BASE_SPEED * PU
       - RoundDiv(len - 5 * LU,
                  ((SPEED_FLOOR_LENGTH - 5) * (LU \div PU)) \div (BASE_SPEED - MIN_SPEED))

\* Snake.calculateSpeed for a length in length units; the result is in
\* distance units per second:  120 - 35 * (length - 5) / (2000 - 5)
calculateSpeed(len) ==
  IF len <= 5 * LU THEN BASE_SPEED * PU
  ELSE IF len >= SPEED_FLOOR_LENGTH * LU THEN MIN_SPEED * PU
  ELSE BASE_SPEED * PU
       - RoundDiv(len - 5 * LU,
                  ((SPEED_FLOOR_LENGTH - 5) * (LU \div PU)) \div (BASE_SPEED - MIN_SPEED))

\* the spacing multiplier of calculateSegmentDistance, in thousandths
lengthFactor(len) ==
  IF len > 500 * LU
  THEN Min(3000, 1000 + RoundDiv(Log10(len \div ((100 * LU) \div FS)) * 1000, FS))
  ELSE IF len > 100 * LU
  THEN 1000 + RoundDiv(len - 100 * LU, (400 * LU) \div 1000)
  ELSE 1000

\* the gap one loop step of calculateSegmentDistance adds, before the tail
\* multiplier: baseGap * lengthFactor, in distance units
segmentGap(len) == RoundDiv(SEGMENT_GAP * PU * lengthFactor(len), 1000)

\* the same gap for a step i > length * 0.7:  segmentGap *= 1.2
tailSegmentGap(len) == RoundDiv(segmentGap(len) * 12, 10)

\* the number of loop indices i >= 1 with i <= length * 0.7, that is
\* floor(0.7 * length)
neckSteps(len) ==
  (7 * (len \div 10) + (7 * (len % 10)) \div 10) \div LU

\* Variant of cumulativeDistance whose loop stops adding at the tail boundary
cumulativeDistanceNeckOnly(segmentIndex, neck, gap, tailGap) ==
  Min(segmentIndex, neck) * gap

\* the sum the loop of calculateSegmentDistance builds: it adds gap for each
\* i in 1..segmentIndex with i <= 0.7 * length (the first `neck` steps) and
\* tailGap for each i beyond; the gap does not otherwise depend on i, so the
\* sum is written in closed form
cumulativeDistance(segmentIndex, neck, gap, tailGap) ==
  LET k == Min(segmentIndex, neck)
  IN k * gap + (segmentIndex - k) * tailGap

\* Snake.calculateSegmentDistance(segmentIndex) at length len
calculateSegmentDistance(segmentIndex, len) ==
  IF segmentIndex = 0 THEN 0
  ELSE cumulativeDistance(segmentIndex, neckSteps(len), segmentGap(len), tailSegmentGap(len))

\* the size multiplier of Snake.updateVisualSize, in thousandths
sizeMultiplier(len) ==
  IF len <= INITIAL_LENGTH * LU THEN 1000
  ELSE IF len >= 2000 * LU THEN 6000
  ELSE LET arg == FS + RoundDiv(len - INITIAL_LENGTH * LU,
                                ((2000 - INITIAL_LENGTH) * LU) \div (9 * FS))
       IN 1000 + RoundDiv(Log10(arg) * 5000, FS)

\* Snake.updateVisualSize
updateVisualSize(s) ==
  [s EXCEPT !.headRadius = RoundDiv(12 * PU * sizeMultiplier(s.length), 1000),
            !.bodyRadius = RoundDiv(10 * PU * sizeMultiplier(s.length), 1000)]

---------------------------------------------------------------------------
(* Snake: trail buffer *)

\* The bracket search of getPositionAtDistance: the first index i with
\* trail[i].arcLength >= target >= trail[i+1].arcLength.  It is called with
\* trail[Len].arcLength < target < trail[1].arcLength, and addToTrail keeps
\* the trail in decreasing arcLength (TrailOrdered below), so the first such
\* i is the least i with trail[i+1].arcLength <= target; the loop's linear
\* scan is replaced by a bisection for it.
RECURSIVE bracketIndex(_, _, _, _)
bracketIndex(trail, target, lo, hi) ==
  IF lo >= hi THEN lo
  ELSE LET mid == (lo + hi) \div 2
       IN IF trail[mid + 1].arcLength <= target
          THEN bracketIndex(trail, target, lo, mid)
          ELSE bracketIndex(trail, target, mid + 1, hi)

\* Variant of getPositionAtDistance that goes one sample step past the
\* oldest sample for a target beyond the trail
getPositionAtDistanceExtrapolating(s, targetDistance) ==
  LET trail == s.trail
      n == Len(trail)
  IN IF n = 0 THEN s.position
     ELSE IF n = 1 THEN trail[1].position
     ELSE LET headArcLength == trail[1].arcLength
              actualTargetDistance == headArcLength - targetDistance
          IN IF actualTargetDistance >= headArcLength THEN trail[1].position
             ELSE IF actualTargetDistance <= trail[n].arcLength
             THEN Vec(2 * trail[n].position.x - trail[n - 1].position.x,
                      2 * trail[n].position.y - trail[n - 1].position.y)
             ELSE LET i == bracketIndex(trail, actualTargetDistance, 1, n - 1)
                      currentPoint == trail[i]
                      nextPoint == trail[i + 1]
                      segmentLength == currentPoint.arcLength - nextPoint.arcLength
                      num == actualTargetDistance - nextPoint.arcLength
                  IN IF segmentLength = 0 THEN currentPoint.position
                     ELSE Vec(nextPoint.position.x
                                + RoundDiv((currentPoint.position.x - nextPoint.position.x) * num,
                                           segmentLength),
                              nextPoint.position.y
                                + RoundDiv((currentPoint.position.y - nextPoint.position.y) * num,
                                           segmentLength))

\* Variant of getPositionAtDistance that returns the newer sample of the
\* bracketing pair without interpolating
getPositionAtDistanceNearest(s, targetDistance) ==
  LET trail == s.trail
      n == Len(trail)
  IN IF n = 0 THEN s.position
     ELSE IF n = 1 THEN trail[1].position
     ELSE LET headArcLength == trail[1].arcLength
              actualTargetDistance == headArcLength - targetDistance
          IN IF actualTargetDistance >= headArcLength THEN trail[1].position
             ELSE IF actualTargetDistance <= trail[n].arcLength THEN trail[n].position
             ELSE trail[bracketIndex(trail, actualTargetDistance, 1, n - 1)].position

\* Snake.getPositionAtDistance(targetDistance); trail[1] is the newest sample
getPositionAtDistance(s, targetDistance) ==
  LET trail == s.trail
      n == Len(trail)
  IN IF n = 0 THEN s.position
     ELSE IF n = 1 THEN trail[1].position
     ELSE LET headArcLength == trail[1].arcLength
              actualTargetDistance == headArcLength - targetDistance
          IN IF actualTargetDistance >= headArcLength THEN trail[1].position
             ELSE IF actualTargetDistance <= trail[n].arcLength THEN trail[n].position
             ELSE LET i == bracketIndex(trail, actualTargetDistance, 1, n - 1)
                      currentPoint == trail[i]
                      nextPoint == trail[i + 1]
                      segmentLength == currentPoint.arcLength - nextPoint.arcLength
                      num == actualTargetDistance - nextPoint.arcLength
                  IN IF segmentLength = 0 THEN currentPoint.position
                     ELSE Vec(nextPoint.position.x
                                + RoundDiv((currentPoint.position.x - nextPoint.position.x) * num,
                                           segmentLength),
                              nextPoint.position.y
                                + RoundDiv((currentPoint.position.y - nextPoint.position.y) * num,
                                           segmentLength))

\* Snake.updateMaxTrailDistance
updateMaxTrailDistance(s) ==
  IF Len(s.segments) > 0
  THEN [s EXCEPT !.maxTrailDistance =
          Max(s.maxTrailDistance, s.segments[Len(s.segments)].distance + 200 * PU)]
  ELSE [s EXCEPT !.maxTrailDistance =
          Max(s.maxTrailDistance, RoundDiv(s.length * SEGMENT_GAP * 2, LU \div PU))]

\* Variant of addToTrail without the count cap
addToTrailNoCap(s, newPosition) ==
  LET lastTrailPoint == s.trail[1]
      distance == distanceTo(lastTrailPoint.position, newPosition)
  IN IF distance >= minSampleDistance
     THEN LET newArcLength == lastTrailPoint.arcLength + distance
              added == <<[position |-> newPosition, arcLength |-> newArcLength]>> \o s.trail
              requiredTrailDistance == s.maxTrailDistance + 100 * PU
              kept == SelectSeq(added, LAMBDA point :
                                newArcLength - point.arcLength <= requiredTrailDistance)
          IN [s EXCEPT !.trail = kept]
     ELSE s

\* Variant of addToTrail whose count cap keeps the oldest samples
addToTrailKeepOldest(s, newPosition) ==
  LET lastTrailPoint == s.trail[1]
      distance == distanceTo(lastTrailPoint.position, newPosition)
  IN IF distance >= minSampleDistance
     THEN LET newArcLength == lastTrailPoint.arcLength + distance
              added == <<[position |-> newPosition, arcLength |-> newArcLength]>> \o s.trail
              requiredTrailDistance == s.maxTrailDistance + 100 * PU
              kept == SelectSeq(added, LAMBDA point :
                                newArcLength - point.arcLength <= requiredTrailDistance)
          IN [s EXCEPT !.trail = IF Len(kept) > maxTrailLength
                                 THEN SubSeq(kept, Len(kept) - maxTrailLength + 1, Len(kept))
                                 ELSE kept]
     ELSE s

\* Variant of addToTrail that records every position, however close to the
\* newest sample
addToTrailAlways(s, newPosition) ==
  LET lastTrailPoint == s.trail[1]
      distance == distanceTo(lastTrailPoint.position, newPosition)
      newArcLength == lastTrailPoint.arcLength + distance
      added == <<[position |-> newPosition, arcLength |-> newArcLength]>> \o s.trail
      requiredTrailDistance == s.maxTrailDistance + 100 * PU
      kept == SelectSeq(added, LAMBDA point :
                        newArcLength - point.arcLength <= requiredTrailDistance)
  IN [s EXCEPT !.trail = IF Len(kept) > maxTrailLength
                         THEN SubSeq(kept, 1, maxTrailLength)
                         ELSE kept]

\* Variant of addToTrail whose new sample carries the distance of the last
\* move alone, not the cumulative path length
addToTrailStepLength(s, newPosition) ==
  LET lastTrailPoint == s.trail[1]
      distance == distanceTo(lastTrailPoint.position, newPosition)
  IN IF distance >= minSampleDistance
     THEN LET newArcLength == distance
              added == <<[position |-> newPosition, arcLength |-> newArcLength]>> \o s.trail
              requiredTrailDistance == s.maxTrailDistance + 100 * PU
              kept == SelectSeq(added, LAMBDA point :
                                newArcLength - point.arcLength <= requiredTrailDistance)
          IN [s EXCEPT !.trail = IF Len(kept) > maxTrailLength
                                 THEN SubSeq(kept, 1, maxTrailLength)
                                 ELSE kept]
     ELSE s

\* Snake.addToTrail(newPosition)
addToTrail(s, newPosition) ==
  LET lastTrailPoint == s.trail[1]
      distance == distanceTo(lastTrailPoint.position, newPosition)
  IN IF distance >= minSampleDistance
     THEN LET newArcLength == lastTrailPoint.arcLength + distance
              added == <<[position |-> newPosition, arcLength |-> newArcLength]>> \o s.trail
              requiredTrailDistance == s.maxTrailDistance + 100 * PU
              kept == SelectSeq(added, LAMBDA point :
                                newArcLength - point.arcLength <= requiredTrailDistance)
          IN [s EXCEPT !.trail = IF Len(kept) > maxTrailLength
                                 THEN SubSeq(kept, 1, maxTrailLength)
                                 ELSE kept]
     ELSE s

---------------------------------------------------------------------------
(* Snake: body follower and length economy *)

\* the segment record built for index `index` at length len:
\* calculateSegmentDistance, then getPositionAtDistance
Segment(s, index, neck, gap, tailGap) ==
  LET distance == IF index = 0 THEN 0 ELSE cumulativeDistance(index, neck, gap, tailGap)
  IN [position |-> getPositionAtDistance(s, distance),
      distance |-> distance,
      isHead   |-> index = 0]

\* Snake.updateSegmentsAlongTrail (the gaps of calculateSegmentDistance depend
\* on the length only and are taken once)
updateSegmentsAlongTrail(s) ==
  LET neck == neckSteps(s.length)
      gap == segmentGap(s.length)
      tailGap == tailSegmentGap(s.length)
  IN updateMaxTrailDistance(
       [s EXCEPT !.segments =
          [i \in 1..Len(s.segments) |->
             [Segment(s, i - 1, neck, gap, tailGap) EXCEPT !.isHead = s.segments[i].isHead]]])

\* Variant of popToFloor that removes the segments at the head end
\* (shift for pop)
popToFloorFromHead(segments, len) ==
  IF Len(segments) > Floor(len)
  THEN SubSeq(segments, Len(segments) - Max(0, Floor(len)) + 1, Len(segments))
  ELSE segments

\* while (this.segments.length > Math.floor(this.length)) this.segments.pop()
popToFloor(segments, len) ==
  IF Len(segments) > Floor(len) THEN SubSeq(segments, 1, Max(0, Floor(len))) ELSE segments

\* Variant of consumeLength without the Math.max floor
consumeLengthNoFloor(s, amount) ==
  IF amount <= 0 THEN s
  ELSE LET newLength == s.length - amount
           actualConsumed == s.length - newLength
       IN updateVisualSize(
            [s EXCEPT !.length = newLength,
                      !.lengthBurned = s.lengthBurned + actualConsumed,
                      !.segments = popToFloor(s.segments, newLength),
                      !.speed = calculateSpeed(newLength)])

\* Variant of consumeLength that books the requested amount, not the amount
\* actually consumed
consumeLengthRequested(s, amount) ==
  IF amount <= 0 THEN s
  ELSE LET newLength == Max(MIN_LENGTH_TO_BOOST * LU, s.length - amount)
       IN updateVisualSize(
            [s EXCEPT !.length = newLength,
                      !.lengthBurned = s.lengthBurned + amount,
                      !.segments = popToFloor(s.segments, newLength),
                      !.speed = calculateSpeed(newLength)])

\* Snake.consumeLength(amount)
consumeLength(s, amount) ==
  IF amount <= 0 THEN s
  ELSE LET newLength == Max(MIN_LENGTH_TO_BOOST * LU, s.length - amount)
           actualConsumed == s.length - newLength
       IN updateVisualSize(
            [s EXCEPT !.length = newLength,
                      !.lengthBurned = s.lengthBurned + actualConsumed,
                      !.segments = popToFloor(s.segments, newLength),
                      !.speed = calculateSpeed(newLength)])

\* the consumption step of updateBoostSystem (lines 221-229) on the state s1
\* left by its transition step
boostConsume(s1, deltaTime) ==
  IF s1.isBoosting
  THEN LET lengthToConsume == RoundDiv(LENGTH_COST_PER_SECOND * deltaTime, TU)
           s2 == consumeLength(s1, lengthToConsume)
       IN IF s2.length <= MIN_LENGTH_TO_BOOST * LU
          THEN [s2 EXCEPT !.isBoosting = FALSE]
          ELSE s2
  ELSE s1

\* Variant of updateBoostSystem without the auto-stop after consumption
updateBoostSystemNoAutoStop(s, deltaTime, wantsToBoost) ==
  LET canBoost == s.length > MIN_LENGTH_TO_BOOST * LU
      s1 == IF wantsToBoost /\ canBoost /\ ~s.isBoosting
            THEN [s EXCEPT !.isBoosting = TRUE]
            ELSE IF ~wantsToBoost /\ s.isBoosting
            THEN [s EXCEPT !.isBoosting = FALSE]
            ELSE IF wantsToBoost /\ ~canBoost /\ s.isBoosting
            THEN [s EXCEPT !.isBoosting = FALSE]
            ELSE s
  IN IF s1.isBoosting
     THEN consumeLength(s1, RoundDiv(LENGTH_COST_PER_SECOND * deltaTime, TU))
     ELSE s1

\* Variant of updateBoostSystem whose start branch ignores the input
updateBoostSystemNoInput(s, deltaTime, wantsToBoost) ==
  LET canBoost == s.length > MIN_LENGTH_TO_BOOST * LU
      s1 == IF canBoost /\ ~s.isBoosting
            THEN [s EXCEPT !.isBoosting = TRUE]
            ELSE IF ~wantsToBoost /\ s.isBoosting
            THEN [s EXCEPT !.isBoosting = FALSE]
            ELSE IF wantsToBoost /\ ~canBoost /\ s.isBoosting
            THEN [s EXCEPT !.isBoosting = FALSE]
            ELSE s
  IN boostConsume(s1, deltaTime)

\* Variant of updateBoostSystem without the branch that stops on release
updateBoostSystemNoRelease(s, deltaTime, wantsToBoost) ==
  LET canBoost == s.length > MIN_LENGTH_TO_BOOST * LU
      s1 == IF wantsToBoost /\ canBoost /\ ~s.isBoosting
            THEN [s EXCEPT !.isBoosting = TRUE]
            ELSE IF wantsToBoost /\ ~canBoost /\ s.isBoosting
            THEN [s EXCEPT !.isBoosting = FALSE]
            ELSE s
  IN boostConsume(s1, deltaTime)

\* Variant of updateBoostSystem without the branch that stops a boost whose
\* length is no longer above MIN_LENGTH_TO_BOOST
updateBoostSystemNoGuard(s, deltaTime, wantsToBoost) ==
  LET canBoost == s.length > MIN_LENGTH_TO_BOOST * LU
      s1 == IF wantsToBoost /\ canBoost /\ ~s.isBoosting
            THEN [s EXCEPT !.isBoosting = TRUE]
            ELSE IF ~wantsToBoost /\ s.isBoosting
            THEN [s EXCEPT !.isBoosting = FALSE]
            ELSE s
  IN boostConsume(s1, deltaTime)

\* Snake.updateBoostSystem(deltaTime, wantsToBoost)
updateBoostSystem(s, deltaTime, wantsToBoost) ==
  LET canBoost == s.length > MIN_LENGTH_TO_BOOST * LU
      s1 == IF wantsToBoost /\ canBoost /\ ~s.isBoosting
            THEN [s EXCEPT !.isBoosting = TRUE]
            ELSE IF ~wantsToBoost /\ s.isBoosting
            THEN [s EXCEPT !.isBoosting = FALSE]
            ELSE IF wantsToBoost /\ ~canBoost /\ s.isBoosting
            THEN [s EXCEPT !.isBoosting = FALSE]
            ELSE s
  IN boostConsume(s1, deltaTime)

\* Variant of decayRate with the lowest rate in every bracket
decayRateFlat(len) ==
  IF len > 50 * LU THEN 3 ELSE 0

\* the decayRate chosen by updateLengthDecay, in hundredths of a length per
\* second
decayRate(len) ==
  IF len > 1000 * LU THEN 50
  ELSE IF len > 500 * LU THEN 30
  ELSE IF len > 200 * LU THEN 15
  ELSE IF len > 100 * LU THEN 8
  ELSE IF len > 50 * LU THEN 3
  ELSE 0

\* the segments left by the removal loop of updateLengthDecay: it runs
\* Math.floor(oldLength - length) times and pops while
\* segments.length > length
RECURSIVE decayPop(_, _, _)
decayPop(segments, len, times) ==
  IF times <= 0 THEN segments
  ELSE IF Len(segments) * LU > len
       THEN decayPop(SubSeq(segments, 1, Len(segments) - 1), len, times - 1)
       ELSE decayPop(segments, len, times - 1)

\* Variant of updateLengthDecay without the Math.max floor
updateLengthDecayNoFloor(s, deltaTime) ==
  IF s.length <= DECAY_FLOOR * LU THEN s
  ELSE LET accumulator == s.decayAccumulator + deltaTime
       IN IF accumulator >= TU
          THEN LET lengthToLose == RoundDiv(decayRate(s.length) * accumulator * (LU \div 100), TU)
               IN IF lengthToLose > 0
                  THEN LET newLength == s.length - lengthToLose
                           segmentsToRemove == Floor(s.length - newLength)
                       IN updateVisualSize(
                            [s EXCEPT !.length = newLength,
                                      !.segments = decayPop(s.segments, newLength, segmentsToRemove),
                                      !.speed = calculateSpeed(newLength),
                                      !.decayAccumulator = 0])
                  ELSE [s EXCEPT !.decayAccumulator = 0]
          ELSE [s EXCEPT !.decayAccumulator = accumulator]

\* Variant of updateLengthDecay that loses one second's worth per firing,
\* whatever the accumulator holds
updateLengthDecayWholeSecond(s, deltaTime) ==
  IF s.length <= DECAY_FLOOR * LU THEN s
  ELSE LET accumulator == s.decayAccumulator + deltaTime
       IN IF accumulator >= TU
          THEN LET lengthToLose == RoundDiv(decayRate(s.length) * TU * (LU \div 100), TU)
               IN IF lengthToLose > 0
                  THEN LET newLength == Max(DECAY_FLOOR * LU, s.length - lengthToLose)
                           segmentsToRemove == Floor(s.length - newLength)
                       IN updateVisualSize(
                            [s EXCEPT !.length = newLength,
                                      !.segments = decayPop(s.segments, newLength, segmentsToRemove),
                                      !.speed = calculateSpeed(newLength),
                                      !.decayAccumulator = 0])
                  ELSE [s EXCEPT !.decayAccumulator = 0]
          ELSE [s EXCEPT !.decayAccumulator = accumulator]

\* Variant of updateLengthDecay without the early return at or below the
\* floor
updateLengthDecayNoReturn(s, deltaTime) ==
  LET accumulator == s.decayAccumulator + deltaTime
  IN IF accumulator >= TU
     THEN LET lengthToLose == RoundDiv(decayRate(s.length) * accumulator * (LU \div 100), TU)
          IN IF lengthToLose > 0
             THEN LET newLength == Max(DECAY_FLOOR * LU, s.length - lengthToLose)
                      segmentsToRemove == Floor(s.length - newLength)
                  IN updateVisualSize(
                       [s EXCEPT !.length = newLength,
                                 !.segments = decayPop(s.segments, newLength, segmentsToRemove),
                                 !.speed = calculateSpeed(newLength),
                                 !.decayAccumulator = 0])
             ELSE [s EXCEPT !.decayAccumulator = 0]
     ELSE [s EXCEPT !.decayAccumulator = accumulator]

\* Snake.updateLengthDecay(deltaTime)
updateLengthDecay(s, deltaTime) ==
  IF s.length <= DECAY_FLOOR * LU THEN s
  ELSE LET accumulator == s.decayAccumulator + deltaTime
       IN IF accumulator >= TU
          THEN LET lengthToLose == RoundDiv(decayRate(s.length) * accumulator * (LU \div 100), TU)
               IN IF lengthToLose > 0
                  THEN LET newLength == Max(DECAY_FLOOR * LU, s.length - lengthToLose)
                           segmentsToRemove == Floor(s.length - newLength)
                       IN updateVisualSize(
                            [s EXCEPT !.length = newLength,
                                      !.segments = decayPop(s.segments, newLength, segmentsToRemove),
                                      !.speed = calculateSpeed(newLength),
                                      !.decayAccumulator = 0])
                  ELSE [s EXCEPT !.decayAccumulator = 0]
          ELSE [s EXCEPT !.decayAccumulator = accumulator]

\* Variant of growIterations that counts the whole units of the amount
\* (i < Math.floor(amount))
growIterationsWhole(amount) ==
  IF amount <= 0 THEN 0 ELSE amount \div LU

\* the number of iterations of  for (let i = 0; i < amount; i++)
growIterations(amount) ==
  IF amount <= 0 THEN 0 ELSE (amount + LU - 1) \div LU

\* Variant of grow that also credits the amount to value (a score that
\* follows the pickups)
growCreditsValue(s, amount) ==
  LET newLength == s.length + amount
      n == Len(s.segments)
      s1 == [s EXCEPT !.length = newLength, !.value = s.value + amount \div LU]
      neck == neckSteps(newLength)
      gap == segmentGap(newLength)
      tailGap == tailSegmentGap(newLength)
      added == [j \in 1..growIterations(amount) |->
                  [Segment(s1, n + j - 1, neck, gap, tailGap) EXCEPT !.isHead = FALSE]]
      s2 == updateMaxTrailDistance([s1 EXCEPT !.segments = s.segments \o added])
  IN [updateVisualSize(s2) EXCEPT !.speed = calculateSpeed(newLength)]

\* Snake.grow(amount)
grow(s, amount) ==
  LET newLength == s.length + amount
      n == Len(s.segments)
      s1 == [s EXCEPT !.length = newLength]
      neck == neckSteps(newLength)
      gap == segmentGap(newLength)
      tailGap == tailSegmentGap(newLength)
      added == [j \in 1..growIterations(amount) |->
                  [Segment(s1, n + j - 1, neck, gap, tailGap) EXCEPT !.isHead = FALSE]]
      s2 == updateMaxTrailDistance([s1 EXCEPT !.segments = s.segments \o added])
  IN [updateVisualSize(s2) EXCEPT !.speed = calculateSpeed(newLength)]

\* Snake.addValue(amount)
addValue(s, amount) == [s EXCEPT !.value = s.value + amount]

\* Snake.debugAddLength() and Snake.debugAddBigLength(); ENABLE_DEBUG_KEYS is true
debugAddLength(s) == grow(s, LENGTH_BOOST_AMOUNT * LU)
debugAddBigLength(s) == grow(s, BIG_LENGTH_BOOST * LU)

\* Snake.die
die(s) == [s EXCEPT !.isAlive = FALSE]

---------------------------------------------------------------------------
(* Snake: steering, head advance, the whole tick *)

\* MathUtils.angleDifference(a, b) = atan2(sin(b - a), cos(b - a))
angleDifference(a, b) ==
  LET w == WrapAngle(b - a)
  IN IF w = -PI /\ b - a > 0 THEN PI ELSE w

\* turnPenaltyFactor of Snake.update, in thousandths
turnPenaltyFactor(len) ==
  LET lengthDiff == Max(0, len - 5 * LU)
  IN IF lengthDiff > 1000 * LU
     THEN 800 + RoundDiv(Ln(lengthDiff \div ((1000 * LU) \div FS)) * 50, FS)
     ELSE IF lengthDiff > 100 * LU
     THEN 400 + RoundDiv(Ln(lengthDiff \div ((100 * LU) \div FS)) * 200, FS)
     ELSE RoundDiv(lengthDiff * 4, LU)

\* turnMultiplier = Math.max(0.1, 1 - turnPenaltyFactor), in thousandths
turnMultiplier(len) == Max(100, 1000 - turnPenaltyFactor(len))

\* effectiveTurnRate = baseTurnRate * turnMultiplier * deltaTime, in angle units
effectiveTurnRate(len, deltaTime) ==
  RoundDiv(turnMultiplier(len) * deltaTime, (1000 * TU) \div (TURN_RATE * AU))

\* Variant of the steering step that always turns by the full rate and never
\* snaps to the target
steerNoSnap(s, deltaTime, turnDirection) ==
  IF magnitude(turnDirection) * 10 > PU
  THEN LET targetAngle == Atan2(turnDirection.y, turnDirection.x)
           angleDiff == angleDifference(s.angle, targetAngle)
           rate == effectiveTurnRate(s.length, deltaTime)
       IN [s EXCEPT !.angle = s.angle + Sign(angleDiff) * rate]
  ELSE s

\* Variant of the steering step without the magnitude test
steerAnyInput(s, deltaTime, turnDirection) ==
  LET targetAngle == Atan2(turnDirection.y, turnDirection.x)
      angleDiff == angleDifference(s.angle, targetAngle)
      rate == effectiveTurnRate(s.length, deltaTime)
  IN IF Abs(angleDiff) <= rate
     THEN [s EXCEPT !.angle = targetAngle]
     ELSE [s EXCEPT !.angle = s.angle + Sign(angleDiff) * rate]

\* the steering step of Snake.update
steer(s, deltaTime, turnDirection) ==
  IF magnitude(turnDirection) * 10 > PU
  THEN LET targetAngle == Atan2(turnDirection.y, turnDirection.x)
           angleDiff == angleDifference(s.angle, targetAngle)
           rate == effectiveTurnRate(s.length, deltaTime)
       IN IF Abs(angleDiff) <= rate
          THEN [s EXCEPT !.angle = targetAngle]
          ELSE [s EXCEPT !.angle = s.angle + Sign(angleDiff) * rate]
  ELSE s

\* currentSpeed * deltaTime, in distance units
stepLength(s, deltaTime) ==
  IF s.isBoosting
  THEN RoundDiv(s.speed * BOOST_SPEED_MULTIPLIER * deltaTime, 10 * TU)
  ELSE RoundDiv(s.speed * deltaTime, TU)

\* Variant of Snake.update that repositions the segments before the head
\* moves and the trail is extended
SnakeUpdateFollowFirst(s, deltaTime, turnDirection, boost) ==
  IF ~s.isAlive THEN s
  ELSE LET s1 == updateBoostSystem(s, deltaTime, boost)
           s2 == updateLengthDecay(s1, deltaTime)
           s3 == steer(s2, deltaTime, turnDirection)
           velocity == fromAngle(s3.angle, stepLength(s3, deltaTime))
           newHeadPosition == Vec(s3.position.x + velocity.x, s3.position.y + velocity.y)
           s4 == addToTrail(s3, newHeadPosition)
       IN [updateSegmentsAlongTrail(s3) EXCEPT !.position = newHeadPosition,
                                               !.trail = s4.trail]

\* Variant of Snake.update without the isAlive test
SnakeUpdateWhenDead(s, deltaTime, turnDirection, boost) ==
  LET s1 == updateBoostSystem(s, deltaTime, boost)
      s2 == updateLengthDecay(s1, deltaTime)
      s3 == steer(s2, deltaTime, turnDirection)
      velocity == fromAngle(s3.angle, stepLength(s3, deltaTime))
      newHeadPosition == Vec(s3.position.x + velocity.x, s3.position.y + velocity.y)
      s4 == addToTrail(s3, newHeadPosition)
  IN updateSegmentsAlongTrail([s4 EXCEPT !.position = newHeadPosition])

\* Variant of Snake.update that steers and moves the head on the state of
\* the previous tick, and applies boost and decay after the trail record
SnakeUpdateMoveFirst(s, deltaTime, turnDirection, boost) ==
  IF ~s.isAlive THEN s
  ELSE LET s1 == steer(s, deltaTime, turnDirection)
           velocity == fromAngle(s1.angle, stepLength(s1, deltaTime))
           newHeadPosition == Vec(s1.position.x + velocity.x, s1.position.y + velocity.y)
           s2 == updateBoostSystem(s1, deltaTime, boost)
           s3 == updateLengthDecay(s2, deltaTime)
           s4 == addToTrail(s3, newHeadPosition)
       IN updateSegmentsAlongTrail([s4 EXCEPT !.position = newHeadPosition])

\* Snake.update(deltaTime, turnDirection, boost)
SnakeUpdate(s, deltaTime, turnDirection, boost) ==
  IF ~s.isAlive THEN s
  ELSE LET s1 == updateBoostSystem(s, deltaTime, boost)
           s2 == updateLengthDecay(s1, deltaTime)
           s3 == steer(s2, deltaTime, turnDirection)
           velocity == fromAngle(s3.angle, stepLength(s3, deltaTime))
           newHeadPosition == Vec(s3.position.x + velocity.x, s3.position.y + velocity.y)
           s4 == addToTrail(s3, newHeadPosition)
       IN updateSegmentsAlongTrail([s4 EXCEPT !.position = newHeadPosition])

\* Snake.initializeTrailAndSegments
initializeTrailAndSegments(s) ==
  LET s1 == updateMaxTrailDistance(
              [s EXCEPT !.trail = <<[position |-> s.position, arcLength |-> 0]>>,
                        !.segments = <<>>])
  IN [s1 EXCEPT !.segments =
        [i \in 1..growIterations(s1.length) |->
           Segment(s1, i - 1, neckSteps(s1.length), segmentGap(s1.length),
                   tailSegmentGap(s1.length))]]

\* new Snake(startX, startY, startAngle)
NewSnake(startX, startY, startAngle) ==
  LET s == initializeTrailAndSegments(
             [position |-> Vec(startX, startY),
              angle |-> startAngle,
              length |-> INITIAL_LENGTH * LU,
              value |-> 0,
              isBoosting |-> FALSE,
              lengthBurned |-> 0,
              decayAccumulator |-> 0,
              trail |-> <<>>,
              maxTrailDistance |-> 0,
              segments |-> <<>>,
              headRadius |-> 12 * PU,
              bodyRadius |-> 10 * PU,
              isAlive |-> TRUE,
              speed |-> 0])
  IN [s EXCEPT !.speed = calculateSpeed(s.length)]

---------------------------------------------------------------------------
(* Bounds of the model *)

MaxEvents == 3          \* debug-key, input and lifecycle events in a run of Spec
MaxFrames == 3          \* Game.update calls per Snake instance in a run of Spec
MaxPellets == 1         \* pellets collected in a frame that collects any
SlowStep == 15          \* a frame step short of the minimum sample distance

\* the frame steps gameLoop may compute: Math.min(elapsed / 1000, 1/30)
DeltaTimes == {SlowStep, MaxStep}

\* the directions getMovementInput returns in the model: the default (1, 0),
\* and the keyboard direction up-left (a unit vector)
Directions == {Vec(PU, 0), Vec(-707, -707)}

---------------------------------------------------------------------------
(* Game *)

\* Game.initializeGame: the player snake at the centre of the world
InitialSnake == NewSnake((WORLD_WIDTH * PU) \div 2, (WORLD_HEIGHT * PU) \div 2, 0)

\* Game.checkWorldBoundaries
checkWorldBoundaries(s) ==
  IF \/ s.position.x < -(WORLD_MARGIN * PU)
     \/ s.position.x > (WORLD_WIDTH + WORLD_MARGIN) * PU
     \/ s.position.y < -(WORLD_MARGIN * PU)
     \/ s.position.y > (WORLD_HEIGHT + WORLD_MARGIN) * PU
  THEN die(s)
  ELSE s

\* for (const pellet of collectedPellets) this.playerSnake.grow(pellet.value)
RECURSIVE growPellets(_, _)
growPellets(s, n) ==
  IF n = 0 THEN s ELSE growPellets(grow(s, PELLET_VALUE * LU), n - 1)

\* Game.update(deltaTime) with `pellets` pellets inside the pickup radius
GameUpdate(s, deltaTime, pellets) ==
  IF ~s.isAlive THEN s
  ELSE growPellets(
         checkWorldBoundaries(SnakeUpdate(s, deltaTime, moveDir, wantsBoost)),
         pellets)

\* History of a boost run: the length and lengthBurned when the boost input
\* went down on an idle snake with MIN_LENGTH_TO_BOOST < length <= 50, and the
\* frame time ticked since with the input held and no growth, key or restart.
NoRun == [active |-> FALSE, len0 |-> 0, burned0 |-> 0, time |-> 0]

holdStart(s) ==
  IF ~s.isBoosting /\ s.isAlive
     /\ s.length > MIN_LENGTH_TO_BOOST * LU /\ s.length <= DECAY_FLOOR * LU
  THEN [active |-> TRUE, len0 |-> s.length, burned0 |-> s.lengthBurned, time |-> 0]
  ELSE NoRun

holdTick(s, deltaTime, pellets) ==
  IF held.active /\ pellets = 0 /\ s.isAlive
  THEN [held EXCEPT !.time = held.time + deltaTime]
  ELSE NoRun

\* CONFIG.CAMERA and the literals of Game.updateCameraZoom; zoom values are
\* in 1/100000
BASE_ZOOM == 60000
BOOST_ZOOM_FACTOR == 14       \* 1.4, in tenths
ZOOM_LENGTH_CAP == 1500
MAX_ZOOM_OUT == 35000
MIN_ZOOM == 25000

\* logProgress * maxZoomOut of Game.updateCameraZoom for lengthDiff > 0:
\* progress = lengthDiff / maxLengthDiff (in 1/FS),
\* logProgress = Math.log(1 + progress * 19) / Math.log(20)
zoomOutFactor(lengthDiff) ==
  LET maxLengthDiff == (ZOOM_LENGTH_CAP - INITIAL_LENGTH) * 100
      progress == RoundDiv((lengthDiff \div (LU \div 100)) * FS, maxLengthDiff)
  IN RoundDiv(Ln(FS + progress * 19) * MAX_ZOOM_OUT, Ln(20 * FS))

\* Variant of Game.updateCameraZoom without the length cap and the zoom
\* limits
updateCameraZoomUnlimited(s) ==
  LET lengthDiff == Max(0, s.length - INITIAL_LENGTH * LU)
      baseZoom == BASE_ZOOM - (IF lengthDiff = 0 THEN 0 ELSE zoomOutFactor(lengthDiff))
  IN IF s.isBoosting THEN (baseZoom * BOOST_ZOOM_FACTOR) \div 10 ELSE baseZoom

\* Game.updateCameraZoom: the camera.targetZoom it sets for the snake s
updateCameraZoom(s) ==
  LET lengthForZoom == Min(s.length, ZOOM_LENGTH_CAP * LU)
      lengthDiff == Max(0, lengthForZoom - INITIAL_LENGTH * LU)
      baseZoom == Max(MIN_ZOOM,
                      Min(BASE_ZOOM - (IF lengthDiff = 0 THEN 0
                                       ELSE zoomOutFactor(lengthDiff)),
                          BASE_ZOOM))
  IN IF s.isBoosting THEN (baseZoom * BOOST_ZOOM_FACTOR) \div 10 ELSE baseZoom

\* the body of Game.gameLoop after its isRunning test
GameLoop(deltaTime, pellets, callbacks) ==
  /\ snake' = GameUpdate(snake, deltaTime, pellets)
  /\ frameCount' = IF snake.isAlive THEN frameCount + 1 ELSE frameCount
  /\ pending' = callbacks + 1
  /\ held' = holdTick(snake, deltaTime, pellets)

Init ==
  /\ snake = InitialSnake
  /\ isRunning = FALSE
  /\ pending = 0
  /\ frameCount = 0
  /\ wantsBoost = FALSE
  /\ moveDir = Vec(PU, 0)
  /\ events = 0
  /\ held = NoRun

\* Game.start(): the first gameLoop call is made directly, with no time elapsed
Start(maxEvents, maxFrames, maxPellets) ==
  /\ events < maxEvents
  /\ frameCount < maxFrames
  /\ events' = events + 1
  /\ isRunning' = TRUE
  /\ \E pellets \in {0, maxPellets} : GameLoop(0, pellets, pending)
  /\ UNCHANGED <<wantsBoost, moveDir>>

\* Game.stop()
Stop(maxEvents) ==
  /\ events < maxEvents
  /\ isRunning
  /\ events' = events + 1
  /\ isRunning' = FALSE
  /\ UNCHANGED <<snake, pending, frameCount, wantsBoost, moveDir, held>>

\* Game.restart(), the KeyR handler
Restart(maxEvents) ==
  /\ events < maxEvents
  /\ events' = events + 1
  /\ snake' = InitialSnake
  /\ frameCount' = 0
  /\ isRunning' = TRUE
  /\ held' = NoRun
  /\ UNCHANGED <<pending, wantsBoost, moveDir>>

\* a requestAnimationFrame callback: Game.gameLoop
AnimationFrame(deltaTimes, maxFrames, maxPellets) ==
  /\ pending > 0
  /\ IF isRunning
     THEN /\ frameCount < maxFrames
          /\ \E deltaTime \in deltaTimes, pellets \in {0, maxPellets} :
               GameLoop(deltaTime, pellets, pending - 1)
     ELSE /\ pending' = pending - 1
          /\ UNCHANGED <<snake, frameCount, held>>
  /\ UNCHANGED <<isRunning, wantsBoost, moveDir, events>>

\* the KeyL handler of Game.setupDebugControls
KeyL(maxEvents) ==
  /\ events < maxEvents
  /\ events' = events + 1
  /\ snake' = debugAddLength(snake)
  /\ held' = NoRun
  /\ UNCHANGED <<isRunning, pending, frameCount, wantsBoost, moveDir>>

\* the KeyB handler
KeyB(maxEvents) ==
  /\ events < maxEvents
  /\ events' = events + 1
  /\ snake' = debugAddBigLength(snake)
  /\ held' = NoRun
  /\ UNCHANGED <<isRunning, pending, frameCount, wantsBoost, moveDir>>

\* the KeyK handler: this.playerSnake.length = Math.max(3, length - 3)
KeyK(maxEvents) ==
  /\ events < maxEvents
  /\ events' = events + 1
  /\ snake' = [snake EXCEPT !.length = Max(3 * LU, snake.length - 3 * LU)]
  /\ held' = NoRun
  /\ UNCHANGED <<isRunning, pending, frameCount, wantsBoost, moveDir>>

\* InputHandler: Space, the mouse button or a touch goes down or up
SetBoost(maxEvents) ==
  /\ events < maxEvents
  /\ events' = events + 1
  /\ wantsBoost' = ~wantsBoost
  /\ held' = IF wantsBoost THEN NoRun ELSE holdStart(snake)
  /\ UNCHANGED <<snake, isRunning, pending, frameCount, moveDir>>

\* InputHandler: the movement keys or the mouse change the desired direction
SetDirection(maxEvents) ==
  /\ events < maxEvents
  /\ events' = events + 1
  /\ \E d \in Directions \ {moveDir} : moveDir' = d
  /\ UNCHANGED <<snake, isRunning, pending, frameCount, wantsBoost, held>>

Next ==
  \/ Start(MaxEvents, MaxFrames, MaxPellets)
  \/ Stop(MaxEvents)
  \/ Restart(MaxEvents)
  \/ AnimationFrame(DeltaTimes, MaxFrames, MaxPellets)
  \/ KeyL(MaxEvents)
  \/ KeyB(MaxEvents)
  \/ KeyK(MaxEvents)
  \/ SetBoost(MaxEvents)
  \/ SetDirection(MaxEvents)

Spec == Init /\ [][Next]_vars

---------------------------------------------------------------------------
(* SpecLong: long runs at the full frame step.  The debug keys are pressed  *)
(* before the game is started (KeyL first if at all, KeyB among the first   *)
(* two keys); the boost input goes down before the start and may be         *)
(* released at any frame.                                                   *)

LongKeys == 4           \* debug keys before the start in a run of SpecLong
LongFrames == 92        \* frames in a run of SpecLong

BeforeStart == ~isRunning /\ pending = 0 /\ frameCount = 0

NextLong ==
  \/ BeforeStart /\ ~wantsBoost /\ KeyL(1)
  \/ BeforeStart /\ ~wantsBoost /\ KeyB(2)
  \/ BeforeStart /\ ~wantsBoost /\ KeyK(LongKeys)
  \/ (wantsBoost \/ BeforeStart) /\ SetBoost(LongKeys + 2)
  \/ BeforeStart /\ Start(LongKeys + 3, LongFrames, 0)
  \/ AnimationFrame({MaxStep}, LongFrames, 0)

SpecLong == Init /\ [][NextLong]_vars

----------------------------------------------------------------------------
(* SpecBurn: a short snake burned down to the boost floor.  The inputs are  *)
(* those of SpecLong (debug keys before the start, the boost input down     *)
(* before the start and released at any frame), over runs just long enough  *)
(* for a snake of length 18 to reach the floor and idle there.              *)

BurnKeys == 4           \* debug keys before the start in a run of SpecBurn
BurnFrames == 46        \* frames in a run of SpecBurn

NextBurn ==
  \/ BeforeStart /\ ~wantsBoost /\ KeyL(1)
  \/ BeforeStart /\ ~wantsBoost /\ KeyB(2)
  \/ BeforeStart /\ ~wantsBoost /\ KeyK(BurnKeys)
  \/ (wantsBoost \/ BeforeStart) /\ SetBoost(BurnKeys + 2)
  \/ BeforeStart /\ Start(BurnKeys + 3, BurnFrames, 0)
  \/ AnimationFrame({MaxStep}, BurnFrames, 0)

SpecBurn == Init /\ [][NextBurn]_vars

---------------------------------------------------------------------------
(* SpecDecay: an idle snake of any size.  KeyB is pressed up to DecayBursts *)
(* times before the game is started, then frames run with no input at a     *)
(* step of DecayStep, which does not divide one second: the accumulator     *)
(* passes 1.0 s strictly.                                                   *)

DecayBursts == 41       \* KeyB presses in a run of SpecDecay
DecayFrames == 77       \* frames in a run of SpecDecay
DecayStep == 80         \* the frame step of SpecDecay, 2/75 s

NextDecay ==
  \/ BeforeStart /\ KeyB(DecayBursts)
  \/ BeforeStart /\ Start(DecayBursts + 1, DecayFrames, 0)
  \/ AnimationFrame({DecayStep}, DecayFrames, 0)

SpecDecay == Init /\ [][NextDecay]_vars

---------------------------------------------------------------------------
(* SpecSpeed: the debug keys on a snake at rest, up to lengths past         *)
(* SPEED_FLOOR_LENGTH.  KeyL and KeyK are pressed among the first SpeedKeys *)
(* keys, KeyB up to SpeedBursts keys in all; no frame runs.                 *)

SpeedKeys == 2          \* leading keys of a run of SpecSpeed that may be L or K
SpeedBursts == 83       \* keys in a run of SpecSpeed

NextSpeed ==
  \/ BeforeStart /\ KeyL(SpeedKeys)
  \/ BeforeStart /\ KeyK(SpeedKeys)
  \/ BeforeStart /\ KeyB(SpeedBursts)

SpecSpeed == Init /\ [][NextSpeed]_vars

---------------------------------------------------------------------------
(* SpecTrail: the end of a long run that fills the trail.  The debug keys   *)
(* made the snake long (KeyB TrailBursts times, KeyL TrailGrowths times),   *)
(* which set maxTrailDistance, and short again (KeyK TrailCuts times); the  *)
(* game was started with the boost input held, so that the first frame      *)
(* with time in it consumed length and dropped the segments beyond          *)
(* floor(length); the input was released, and TrailPrefix frames ran at     *)
(* TrailStep, a step just long enough for every frame to leave a sample,    *)
(* the player steering a square loop inside the world: the direction turns  *)
(* a quarter every TrailLeg frames.  The initial state is the state of the  *)
(* game at that point, computed with Snake.update; from there frames run at *)
(* the full step MaxStep, with pellets in reach during the first TrailFeast *)
(* of them.                                                                 *)

TrailBursts == 7        \* KeyB presses before the start in a run of SpecTrail
TrailGrowths == 3       \* KeyL presses before the start
TrailCuts == 67         \* KeyK presses before the start
TrailPrefix == 4995     \* frames at TrailStep before the run is taken up
TrailFrames == 5030     \* frames in a run of SpecTrail
TrailStep == 21         \* the frame step of the first frames, 0.007 s
TrailLeg == 1000        \* frames between two quarter turns of the direction
TrailFeast == 2         \* frames of SpecTrail with pellets in reach

\* the direction the player holds in a frame that starts with frameCount = count
LegDirectionAt(count) ==
  LET quarter == (count \div TrailLeg) % 4
  IN IF quarter = 0 THEN Vec(PU, 0)
     ELSE IF quarter = 1 THEN Vec(0, PU)
     ELSE IF quarter = 2 THEN Vec(-PU, 0)
     ELSE Vec(0, -PU)

LegDirection == LegDirectionAt(frameCount)

\* the snake after a press of a debug key
pressKey(s, key) ==
  IF key = "KeyL" THEN debugAddLength(s)
  ELSE IF key = "KeyB" THEN debugAddBigLength(s)
  ELSE [s EXCEPT !.length = Max(3 * LU, s.length - 3 * LU)]

\* the snake after n presses of a debug key: the first half of them, then the
\* rest
RECURSIVE pressKeys(_, _, _)
pressKeys(s, key, n) ==
  IF n = 0 THEN s
  ELSE IF n = 1 THEN pressKey(s, key)
  ELSE CHOOSE last \in {pressKeys(half, key, n - n \div 2) :
                         half \in {pressKeys(s, key, n \div 2)}} : TRUE

\* Game.update for a frame that starts with frameCount = count, with no pellet
\* in reach
trailFrame(s, deltaTime, count, boost) ==
  IF ~s.isAlive THEN s
  ELSE checkWorldBoundaries(SnakeUpdate(s, deltaTime, LegDirectionAt(count), boost))

\* the snake after the n frames at TrailStep that start with frameCount =
\* count, count + 1, ..., the boost input up: the first half of them, then
\* the rest
RECURSIVE runFrames(_, _, _)
runFrames(s, count, n) ==
  IF n = 0 THEN s
  ELSE IF n = 1 THEN trailFrame(s, TrailStep, count, FALSE)
  ELSE CHOOSE last \in {runFrames(half, count + n \div 2, n - n \div 2) :
                         half \in {runFrames(s, count, n \div 2)}} : TRUE

\* the snake after the keys
TrailKeys ==
  pressKeys(pressKeys(pressKeys(InitialSnake, "KeyB", TrailBursts), "KeyL", TrailGrowths),
            "KeyK", TrailCuts)

\* the snake after the keys, Game.start with the boost input down (a frame
\* with no time elapsed), one more boosted frame, and `prefix` frames
TrailSnake(prefix) ==
  runFrames(trailFrame(trailFrame(TrailKeys, 0, 0, TRUE), TrailStep, 1, TRUE),
            2, prefix)

InitTrail ==
  /\ snake = TrailSnake(TrailPrefix)
  /\ isRunning = TRUE
  /\ pending = 1
  /\ frameCount = 2 + TrailPrefix
  /\ wantsBoost = FALSE
  /\ moveDir = LegDirectionAt(1 + TrailPrefix)
  /\ events = TrailBursts + TrailGrowths + TrailCuts + 3
  /\ held = NoRun

\* InputHandler: the movement input becomes d
SetDirectionTo(d) ==
  /\ moveDir # d
  /\ moveDir' = d
  /\ UNCHANGED <<snake, isRunning, pending, frameCount, wantsBoost, events, held>>

NextTrail ==
  \/ SetDirectionTo(LegDirection)
  \/ /\ moveDir = LegDirection
     /\ frameCount < 2 + TrailPrefix + TrailFeast
     /\ AnimationFrame({MaxStep}, TrailFrames, MaxPellets)
  \/ /\ moveDir = LegDirection
     /\ frameCount >= 2 + TrailPrefix + TrailFeast
     /\ AnimationFrame({MaxStep}, TrailFrames, 0)

SpecTrail == InitTrail /\ [][NextTrail]_vars

---------------------------------------------------------------------------
(* SpecEdge: play next to the edge of the world.  The game was started and  *)
(* EdgePrefix frames ran at the full step with the default direction (1, 0) *)
(* and no input, which brought the head close to the right edge.  The       *)
(* initial state is the state of the game at that point, computed with      *)
(* Snake.update; from there a debug key may be pressed and the direction    *)
(* input may change before the next frame, the boost input goes down and    *)
(* up, frames run at either step with or without a pellet in reach, and the *)
(* head may cross the edge, after which the snake is dead.                  *)

EdgePrefix == 510       \* frames at MaxStep before the run is taken up
EdgeFrames == 515       \* frames in a run of SpecEdge
EdgeEvents == 4         \* events in a run of SpecEdge, Game.start included

\* the snake after n frames at MaxStep with the direction (1, 0), the boost
\* input up and no pellet in reach: the first half of them, then the rest
RECURSIVE edgeFrames(_, _)
edgeFrames(s, n) ==
  IF n = 0 THEN s
  ELSE IF n = 1 THEN trailFrame(s, MaxStep, 0, FALSE)
  ELSE CHOOSE last \in {edgeFrames(half, n - n \div 2) :
                         half \in {edgeFrames(s, n \div 2)}} : TRUE

\* the snake after Game.start (a frame with no time elapsed) and `prefix`
\* frames
EdgeSnake(prefix) == edgeFrames(trailFrame(InitialSnake, 0, 0, FALSE), prefix)

InitEdge ==
  /\ snake = EdgeSnake(EdgePrefix)
  /\ isRunning = TRUE
  /\ pending = 1
  /\ frameCount = 1 + EdgePrefix
  /\ wantsBoost = FALSE
  /\ moveDir = Vec(PU, 0)
  /\ events = 1
  /\ held = NoRun

AtEdgeStart == frameCount = 1 + EdgePrefix

NextEdge ==
  \/ AtEdgeStart /\ KeyL(2)
  \/ AtEdgeStart /\ KeyK(3)
  \/ AtEdgeStart /\ SetDirection(3)
  \/ SetBoost(EdgeEvents)
  \/ AnimationFrame(DeltaTimes, EdgeFrames, MaxPellets)

SpecEdge == InitEdge /\ [][NextEdge]_vars

---------------------------------------------------------------------------
(* SpecValue: the length economy next to reward events.  The debug keys are *)
(* pressed and the boost input goes down before the start; frames run at    *)
(* the full step, with a pellet in reach during the first ValueFeast of     *)
(* them, long enough for the passive decay to fire; and at any time an      *)
(* external reward event (a kill, a token pellet) calls Snake.addValue.     *)

ValueKeys == 3          \* debug keys before the start in a run of SpecValue
ValueFrames == 33       \* frames in a run of SpecValue
ValueFeast == 2         \* frames of SpecValue with a pellet in reach
ValueCap == 3           \* rewards are credited while value is below ValueCap

\* the amounts the reward events credit
RewardAmounts == {1, 2}

\* a reward event: playerSnake.addValue(amount, reason)
AddValue(maxValue) ==
  /\ snake.value < maxValue
  /\ \E amount \in RewardAmounts : snake' = addValue(snake, amount)
  /\ UNCHANGED <<isRunning, pending, frameCount, wantsBoost, moveDir, events, held>>

NextValue ==
  \/ BeforeStart /\ KeyL(1)
  \/ BeforeStart /\ KeyB(2)
  \/ BeforeStart /\ KeyK(ValueKeys)
  \/ BeforeStart /\ SetBoost(ValueKeys + 1)
  \/ BeforeStart /\ Start(ValueKeys + 2, ValueFrames, 0)
  \/ frameCount < ValueFeast /\ AnimationFrame({MaxStep}, ValueFrames, MaxPellets)
  \/ frameCount >= ValueFeast /\ AnimationFrame({MaxStep}, ValueFrames, 0)
  \/ AddValue(ValueCap)

SpecValue == Init /\ [][NextValue]_vars

---------------------------------------------------------------------------
(* SpecTurn: turning.  A debug key may be pressed before the start; the     *)
(* player takes a direction before the start or after TurnAt frames, among  *)
(* the default (1, 0), up-left and left, so that a turn from up-left to     *)
(* left ends at the angle pi, where the heading wraps; the boost input may  *)
(* go down before the start; the first frames run at either step, the later *)
(* ones at the full step, long enough for the heading to reach the          *)
(* direction.                                                               *)

TurnEvents == 5         \* events in a run of SpecTurn, Game.start included
TurnFrames == 28        \* frames in a run of SpecTurn
TurnSlow == 2           \* frames of SpecTurn that may run at SlowStep
TurnAt == 12            \* the frame count at which the direction may change

\* the directions getMovementInput returns in SpecTurn (unit vectors)
TurnDirections == {Vec(PU, 0), Vec(-707, -707), Vec(-PU, 0)}

\* InputHandler: the movement input becomes another one of `directions`
SetDirectionAmong(directions, maxEvents) ==
  /\ events < maxEvents
  /\ events' = events + 1
  /\ \E d \in directions \ {moveDir} : moveDir' = d
  /\ UNCHANGED <<snake, isRunning, pending, frameCount, wantsBoost, held>>

NextTurn ==
  \/ BeforeStart /\ KeyL(1)
  \/ BeforeStart /\ KeyB(1)
  \/ (BeforeStart \/ frameCount = TurnAt) /\ SetDirectionAmong(TurnDirections, TurnEvents)
  \/ BeforeStart /\ SetBoost(TurnEvents - 2)
  \/ BeforeStart /\ Start(TurnEvents - 1, TurnFrames, 0)
  \/ frameCount <= TurnSlow /\ AnimationFrame(DeltaTimes, TurnFrames, 0)
  \/ frameCount > TurnSlow /\ AnimationFrame({MaxStep}, TurnFrames, 0)

SpecTurn == Init /\ [][NextTurn]_vars

---------------------------------------------------------------------------
(* SpecCover: growth after a stretch of travel.  The game was started and   *)
(* CoverPrefix frames ran at the full step with the default direction and   *)
(* no input: the head has travelled well past the length of the body, and   *)
(* addToTrail has pruned the trail to what the body of five segments needs. *)
(* The initial state is the state of the game at that point, computed with  *)
(* Snake.update; from there debug keys are pressed, the boost input goes    *)
(* down and up, and frames run at either step with or without a pellet in   *)
(* reach.                                                                   *)

CoverPrefix == 120      \* frames at MaxStep before the run is taken up
CoverFrames == 124      \* frames in a run of SpecCover
CoverEvents == 3        \* events in a run of SpecCover, Game.start included

InitCover ==
  /\ snake = EdgeSnake(CoverPrefix)
  /\ isRunning = TRUE
  /\ pending = 1
  /\ frameCount = 1 + CoverPrefix
  /\ wantsBoost = FALSE
  /\ moveDir = Vec(PU, 0)
  /\ events = 1
  /\ held = NoRun

NextCover ==
  \/ KeyL(CoverEvents)
  \/ KeyB(CoverEvents)
  \/ KeyK(CoverEvents)
  \/ SetBoost(CoverEvents)
  \/ AnimationFrame(DeltaTimes, CoverFrames, MaxPellets)

SpecCover == InitCover /\ [][NextCover]_vars

---------------------------------------------------------------------------
(* Properties *)

\* addToTrail keeps the trail in strictly decreasing arcLength, newest first:
\* the order the bracket search of getPositionAtDistance relies on
TrailOrdered ==
  \A i \in 1..(Len(snake.trail) - 1) :
    snake.trail[i].arcLength > snake.trail[i + 1].arcLength

\* a step in which Game.update ran Snake.update on a live snake
TickStep == snake.isAlive /\ frameCount' = frameCount + 1

\* the amounts the callers of Snake.grow pass: a pellet's value, and the
\* amounts of debugAddLength and debugAddBigLength
GrowAmounts == {PELLET_VALUE * LU, LENGTH_BOOST_AMOUNT * LU, BIG_LENGTH_BOOST * LU}

\* C1: after any call grow(n) with n > 0, made in any reachable state, the
\* number of segments equals floor(length) for the length after the call.
C1_GrowLeavesFloorSegments ==
  \A amount \in GrowAmounts :
    LET grown == grow(snake, amount)
    IN Len(grown.segments) = Floor(grown.length)

\* C2: at the end of every update tick of a live snake the number of segments
\* equals floor(length), whichever of boost consumption and decay ran in it.
C2_TickLeavesFloorSegments ==
  [][TickStep /\ snake'.isAlive => Len(snake'.segments) = Floor(snake'.length)]_vars

\* C3: consumeLength(amount) never takes a length that is at least
\* MIN_LENGTH_TO_BOOST below MIN_LENGTH_TO_BOOST, and changes nothing for
\* amount <= 0.
C3_ConsumeLengthFloor ==
  \A amount \in {-LU, 0, 1, RoundDiv(LENGTH_COST_PER_SECOND * MaxStep, TU), LU, 100 * LU} :
    \A consumed \in {consumeLength(snake, amount)} :
       /\ snake.length >= MIN_LENGTH_TO_BOOST * LU
            => consumed.length >= MIN_LENGTH_TO_BOOST * LU
       /\ amount <= 0 => consumed = snake

\* C3 case: boost consumption has taken the length down to the floor
C3_FloorReached ==
  snake.lengthBurned > 0 /\ snake.length = MIN_LENGTH_TO_BOOST * LU

\* C4 as stated: in any tick that starts with length > 50, the length is at
\* least 50 after updateLengthDecay (nothing later in the tick changes it).
C4_TickFromAbove50StaysAbove ==
  [][TickStep /\ snake.length > DECAY_FLOOR * LU
       => snake'.length >= DECAY_FLOOR * LU]_vars

\* C4 amended: updateLengthDecay entered with length > 50 returns with
\* length >= 50, for every frame step; entered with length <= 50 it leaves
\* the length as it is.
C4_DecayFloor ==
  \A deltaTime \in {0, SlowStep, MaxStep} :
    LET decayed == updateLengthDecay(snake, deltaTime)
    IN IF snake.length > DECAY_FLOOR * LU
       THEN decayed.length >= DECAY_FLOOR * LU
       ELSE decayed.length = snake.length

\* C4 case: a decay step was cut short by the floor of 50
C4_DecayClamped ==
  /\ snake.length = DECAY_FLOOR * LU
  /\ snake.decayAccumulator = 0
  /\ frameCount > 1

\* C5: at the end of every update tick isBoosting is false whenever
\* length <= MIN_LENGTH_TO_BOOST, whatever the boost input.
C5_IdleAtLowLength ==
  [][TickStep /\ snake'.length <= MIN_LENGTH_TO_BOOST * LU
       => ~snake'.isBoosting]_vars

\* C5 case: the boost was stopped at the floor with the input still held
C5_AutoStopped ==
  /\ wantsBoost
  /\ ~snake.isBoosting
  /\ snake.length <= MIN_LENGTH_TO_BOOST * LU
  /\ snake.lengthBurned > 0
  /\ frameCount > 1

\* C6: isBoosting changes from false to true only in a tick whose boost input
\* is true and whose length at the start is above MIN_LENGTH_TO_BOOST.
C6_BoostStartsOnInputAboveMin ==
  [][~snake.isBoosting /\ snake'.isBoosting
       => TickStep /\ wantsBoost /\ snake.length > MIN_LENGTH_TO_BOOST * LU]_vars

\* C6 case: a boost has started
C6_BoostStarted ==
  snake.isBoosting /\ wantsBoost /\ frameCount > 0

\* C7: in every tick of a live snake whose boost input is false, isBoosting
\* is false at the end of the tick and consumeLength is not invoked: the
\* boost step leaves every field but isBoosting as it was.
C7_ReleaseStopsInSameTick ==
  [][TickStep /\ ~wantsBoost
       => /\ ~snake'.isBoosting
          /\ snake'.lengthBurned = snake.lengthBurned
          /\ \A deltaTime \in {0} \cup DeltaTimes :
               updateBoostSystem(snake, deltaTime, FALSE)
                 = [snake EXCEPT !.isBoosting = FALSE]]_vars

\* C7 case: a boost that consumed length was released and a tick stopped it
C7_ReleasedAndStopped ==
  /\ ~wantsBoost
  /\ ~snake.isBoosting
  /\ snake.lengthBurned > 0
  /\ snake.length > MIN_LENGTH_TO_BOOST * LU

\* C8: lengthBurned never decreases over ticks, grow calls and the debug keys
\* L, B and K on one Snake instance (a restart makes a new instance).
C8_LengthBurnedMonotonic ==
  [][snake' # InitialSnake => snake'.lengthBurned >= snake.lengthBurned]_vars

\* C8 case: KeyK took a boosting snake below MIN_LENGTH_TO_BOOST and the next
\* tick, with the input still held, stopped the boost
C8_KeyKDuringBoost ==
  /\ wantsBoost
  /\ ~snake.isBoosting
  /\ snake.length < MIN_LENGTH_TO_BOOST * LU
  /\ snake.lengthBurned > 0

\* C9: from an idle snake of length L0 with 5 < L0 <= 50, holding the boost
\* input over ticks of total time T with no growth leaves
\* length = max(MIN_LENGTH_TO_BOOST, L0 - LENGTH_COST_PER_SECOND * T), and
\* lengthBurned has risen by L0 minus that length.
C9_BoostAccounting ==
  held.active =>
    /\ snake.length = Max(MIN_LENGTH_TO_BOOST * LU,
                          held.len0 - (LENGTH_COST_PER_SECOND \div TU) * held.time)
    /\ snake.lengthBurned - held.burned0 = held.len0 - snake.length

\* C9 case: the input was held for longer than the length above the floor
\* pays for
C9_HeldPastFloor ==
  /\ held.active
  /\ held.len0 - (LENGTH_COST_PER_SECOND \div TU) * held.time < MIN_LENGTH_TO_BOOST * LU

\* C10: entered with length > 50, updateLengthDecay adds dt to the
\* accumulator; below 1 s the length is unchanged; from 1 s on the length
\* becomes max(50, length - rate * accumulator), the rate being 0.5 above
\* 1000, 0.3 above 500, 0.15 above 200, 0.08 above 100 and 0.03 above 50, and
\* the accumulator is reset to 0.
C10_DecayStepRule ==
  \A deltaTime \in {0, SlowStep, DecayStep, MaxStep} :
    snake.length > 50 * LU =>
      LET decayed == updateLengthDecay(snake, deltaTime)
          accumulated == snake.decayAccumulator + deltaTime
          hundredths == IF snake.length > 1000 * LU THEN 50
                        ELSE IF snake.length > 500 * LU THEN 30
                        ELSE IF snake.length > 200 * LU THEN 15
                        ELSE IF snake.length > 100 * LU THEN 8
                        ELSE 3
          loss == hundredths * accumulated * (LU \div (100 * TU))
      IN IF accumulated < TU
         THEN decayed.length = snake.length /\ decayed.decayAccumulator = accumulated
         ELSE /\ decayed.length = Max(50 * LU, snake.length - loss)
              /\ decayed.decayAccumulator = 0

\* C10 case: a decay step at the top rate has been applied in a tick
C10_TopBracketDecayed ==
  /\ snake.length > 1000 * LU
  /\ snake.length < 1005 * LU
  /\ snake.decayAccumulator = 0
  /\ frameCount > 1

\* The history of a run of SpecDecay, read from its counters: every event
\* before the start is a KeyB and every frame after the first (Game.start's
\* own, with no time elapsed) takes DecayStep.
DecayRunStarted == frameCount > 0
DecayRunLength0 == (INITIAL_LENGTH + BIG_LENGTH_BOOST * (events - 1)) * LU
DecayRunTime == (frameCount - 1) * DecayStep
DecayRunOneBracket == decayRate(snake.length) = decayRate(DecayRunLength0)

C12_DecayInactiveAtOrBelowFloor ==
  snake.length <= DECAY_FLOOR * LU
    => \A deltaTime \in {0, SlowStep, MaxStep} : \A boost \in BOOLEAN :
         \A s1 \in {updateBoostSystem(snake, deltaTime, boost)} :
         \A s2 \in {updateLengthDecay(s1, deltaTime)} :
            /\ s2.length = s1.length
            /\ s2.segments = s1.segments
            /\ s2.speed = s1.speed
            /\ s2.decayAccumulator = s1.decayAccumulator

\* C12 case: a boosting snake was burned from above 50 to below it with time
\* left in the accumulator, and has ticked below 50 since
C12_TickedBelowFloorWithAccumulator ==
  /\ snake.isBoosting
  /\ snake.decayAccumulator > 0
  /\ snake.length < DECAY_FLOOR * LU - (LENGTH_COST_PER_SECOND \div TU) * MaxStep


\* the lengths at which calculateSpeed is examined in a state: the snake's
\* length and lengths next to it
SpeedProbes ==
  {snake.length + d : d \in {-1, 0, 1, LU \div 3, LU, 7 * LU}}

\* C13: calculateSpeed returns 120 for every length <= 5 and 85 for every
\* length >= 2000, is 120 - 35 * (length - 5) / 1995 in between (to the
\* nearest speed unit), and is non-increasing in length.
C13_SpeedCurve ==
  \A len \in SpeedProbes :
    /\ len <= 5 * LU => calculateSpeed(len) = 120 * PU
    /\ len >= 2000 * LU => calculateSpeed(len) = 85 * PU
    /\ 5 * LU < len /\ len < 2000 * LU
         => 2 * Abs((120 * PU - calculateSpeed(len)) * ((1995 * (LU \div PU)) \div 35)
                    - (len - 5 * LU))
              <= (1995 * (LU \div PU)) \div 35
    /\ \A longer \in SpeedProbes :
         len <= longer => calculateSpeed(longer) <= calculateSpeed(len)

\* C13 case: growth has brought the snake to exactly 2000, where the
\* interpolation ends, and stored the speed computed there
C13_GrownToSpeedFloor ==
  /\ snake.length = SPEED_FLOOR_LENGTH * LU
  /\ Len(snake.segments) = SPEED_FLOOR_LENGTH
  /\ snake.speed = MIN_SPEED * PU


\* C14: in every state between operations the stored speed equals
\* calculateSpeed(length) for the current length, however the length last
\* changed.
C14_StoredSpeedIsCalculated ==
  snake.speed = calculateSpeed(snake.length)

\* C15: growth never increases speed. For every reachable state and every
\* amount > 0 that a caller passes, the stored speed after grow(amount) is
\* <= the stored speed before the call.
C15_GrowNeverRaisesSpeed ==
  \A amount \in GrowAmounts : grow(snake, amount).speed <= snake.speed


\* C16: after every tick of a live snake, getPositionAtDistance(0), and with
\* it segment 0's position, equals the head coordinate `position`, for every
\* per-tick displacement, those below the minimum sample spacing included.
C16_SampleAtZeroIsHead ==
  [][TickStep /\ snake'.isAlive
       => /\ getPositionAtDistance(snake', 0) = snake'.position
          /\ snake'.segments[1].position = snake'.position]_vars


\* the retained trail span: newest minus oldest arcLength
TrailSpan ==
  snake.trail[1].arcLength - snake.trail[Len(snake.trail)].arcLength

\* the distances at which the body follower samples the trail
SegmentDistances ==
  {snake.segments[i].distance : i \in 1..Len(snake.segments)}

\* C17: for every target distance d larger than the retained trail span
\* getPositionAtDistance(d) is exactly the oldest retained sample's position,
\* and for every d <= 0 it is the newest sample's position, on a
\* single-sample trail too.
C17_OutsideSpanClamps ==
  /\ \A d \in {TrailSpan + 1, TrailSpan + PU, 2 * TrailSpan + 100 * PU}
               \cup {d \in SegmentDistances : d > TrailSpan} :
        getPositionAtDistance(snake, d) = snake.trail[Len(snake.trail)].position
  /\ \A d \in {0, -1, -PU, -(100 * PU)} :
        getPositionAtDistance(snake, d) = snake.trail[1].position

\* C17 case: after a tick the trail has several samples and the tail segment's
\* distance is beyond the span, so it was placed on the oldest sample
C17_TailBeyondTrail ==
  /\ frameCount > 1
  /\ Len(snake.trail) > 2
  /\ LET last == snake.segments[Len(snake.segments)]
     IN /\ last.distance > TrailSpan
        /\ last.position = snake.trail[Len(snake.trail)].position
        /\ last.position # snake.trail[1].position


\* target distances strictly inside the retained span: those of the neck and
\* the tail segment, the middle of the span and its far end
InsideDistances ==
  LET n == Len(snake.segments)
  IN {d \in {snake.segments[i].distance : i \in {2, n} \cap (1..n)}
            \cup {TrailSpan \div 2, TrailSpan - 1} :
        0 < d /\ d < TrailSpan}

\* the trail lies on a line along the x axis, sampled in the direction of
\* travel
StraightTrail ==
  \A j \in 1..Len(snake.trail) :
    /\ snake.trail[j].position.y = snake.trail[1].position.y
    /\ snake.trail[1].position.x - snake.trail[j].position.x
         = snake.trail[1].arcLength - snake.trail[j].arcLength

\* C18: for a target distance d strictly inside the retained span,
\* getPositionAtDistance(d) is the linear interpolation between two
\* consecutive samples whose arcLengths bracket headArcLength - d, with a
\* fraction in [0,1]; on a straight path it is the point exactly d behind
\* the newest sample.
C18_InterpolatesInsideSpan ==
  \A d \in InsideDistances : \A result \in {getPositionAtDistance(snake, d)} :
    LET target == snake.trail[1].arcLength - d
    IN /\ \E i \in 1..(Len(snake.trail) - 1) :
            LET currentPoint == snake.trail[i]
                nextPoint == snake.trail[i + 1]
                segmentLength == currentPoint.arcLength - nextPoint.arcLength
                num == target - nextPoint.arcLength
            IN /\ nextPoint.arcLength <= target
               /\ target <= currentPoint.arcLength
               /\ 0 <= num /\ num <= segmentLength /\ segmentLength > 0
               /\ result.x = nextPoint.position.x
                    + RoundDiv((currentPoint.position.x - nextPoint.position.x) * num,
                               segmentLength)
               /\ result.y = nextPoint.position.y
                    + RoundDiv((currentPoint.position.y - nextPoint.position.y) * num,
                               segmentLength)
       /\ StraightTrail
            => result = Vec(snake.trail[1].position.x - d, snake.trail[1].position.y)

\* C18 case: after a tick a segment sits strictly between two samples of the
\* trail, at its distance behind the newest sample
C18_SegmentBetweenSamples ==
  /\ frameCount > 1
  /\ \E k \in {2, Len(snake.segments)} :
       LET segment == snake.segments[k]
       IN /\ segment.distance \in InsideDistances
          /\ \A j \in 1..Len(snake.trail) :
               snake.trail[j].arcLength # snake.trail[1].arcLength - segment.distance
          /\ segment.position
               = Vec(snake.trail[1].position.x - segment.distance, snake.trail[1].position.y)


\* C19: in every reachable state the number of trail samples is at most
\* maxTrailLength (5000), for any sequence of ticks and growth.
C19_TrailWithinCap ==
  Len(snake.trail) <= 5000

\* C19 case: the count cap has cut the trail. It holds maxTrailLength samples,
\* the first sample of the run is gone, and the oldest sample left is well
\* within the distance the age pruning keeps.
C19_TrailCutByCap ==
  /\ frameCount > 2 + TrailPrefix
  /\ Len(snake.trail) = maxTrailLength
  /\ snake.trail[Len(snake.trail)].arcLength > 0
  /\ TrailSpan + 10 * PU < snake.maxTrailDistance + 100 * PU


\* C20: pruning never removes the most recent sample. The trail is non-empty
\* in every reachable state, and after every tick whose addToTrail call
\* appended a sample (the head moved at least minSampleDistance from the
\* newest sample), trail[0] is that new sample, whichever of the age pruning
\* and the count cap ran.
C20_NewestSampleKept ==
  /\ Len(snake.trail) >= 1
  /\ [][/\ Len(snake'.trail) >= 1
        /\ TickStep
           /\ distanceTo(snake.trail[1].position, snake'.position) >= minSampleDistance
             => snake'.trail[1]
                  = [position |-> snake'.position,
                     arcLength |-> snake.trail[1].arcLength
                                   + distanceTo(snake.trail[1].position, snake'.position)]]_vars

\* C20 case: the count cap has cut the trail and, frames later, the age
\* pruning has taken it below maxTrailLength again; the newest sample is the
\* head position
C20_AgePrunedAfterCap ==
  /\ frameCount > 2 + TrailPrefix + 3
  /\ Len(snake.trail) < maxTrailLength
  /\ snake.trail[Len(snake.trail)].arcLength > 0
  /\ snake.trail[1].position = snake.position


\* the positions at which addToTrail is examined in a state: the newest
\* sample's own position and positions just short of, at, and beyond the
\* minimum sample distance from it, along an axis and diagonally
TrailProbes ==
  {Vec(snake.trail[1].position.x + d[1], snake.trail[1].position.y + d[2]) :
     d \in {<<0, 0>>, <<minSampleDistance - 1, 0>>, <<minSampleDistance, 0>>,
            <<0, -minSampleDistance>>, <<565, 565>>, <<-566, 566>>,
            <<-(4 * PU), 0>>}}

\* what addToTrail(p) does to the snake s: a sample for p in front of a
\* prefix of the old trail if p is at least minSampleDistance from the newest
\* sample, and nothing otherwise
SampledOrUntouched(s, p) ==
  LET after == addToTrail(s, p)
      distance == distanceTo(s.trail[1].position, p)
  IN IF distance >= minSampleDistance
     THEN /\ after.trail[1] = [position |-> p,
                               arcLength |-> s.trail[1].arcLength + distance]
          /\ Len(after.trail) <= Len(s.trail) + 1
          /\ Tail(after.trail) = SubSeq(s.trail, 1, Len(after.trail) - 1)
     ELSE after = s

\* C21: addToTrail(p) appends a sample only when the distance from the newest
\* sample to p is >= the minimum sample spacing; otherwise the trail (samples,
\* order, arcLengths) is left completely unchanged, and in either case at
\* most one sample is added per tick.
C21_SamplesOnlyAtSpacing ==
  /\ [](\A p \in TrailProbes : SampledOrUntouched(snake, p))
  /\ [][TickStep
         => IF distanceTo(snake.trail[1].position, snake'.position) >= minSampleDistance
            THEN /\ snake'.trail[1].position = snake'.position
                 /\ Len(snake'.trail) <= Len(snake.trail) + 1
                 /\ Tail(snake'.trail) = SubSeq(snake.trail, 1, Len(snake'.trail) - 1)
            ELSE snake'.trail = snake.trail]_vars

\* C21 case: a frame moved the head, by less than the minimum sample
\* distance, and the trail still ends at the sample of an earlier frame
C21_TickLeftNoSample ==
  /\ snake.isAlive
  /\ frameCount > 1 + EdgePrefix
  /\ snake.position # snake.trail[1].position
  /\ distanceTo(snake.trail[1].position, snake.position) < minSampleDistance


\* C22: in every reachable state the trail is ordered newest-first with
\* strictly decreasing arcLength: for every adjacent pair the sample at the
\* lower index has the strictly larger arcLength, and arcLength values are
\* never reset: over any step the arcLength of the newest sample and of the
\* oldest sample do not go down, and a new sample's is above that of the
\* sample it is put in front of.
C22_TrailNewestFirst ==
  /\ []TrailOrdered
  /\ [][/\ snake'.trail[1].arcLength >= snake.trail[1].arcLength
        /\ snake'.trail[Len(snake'.trail)].arcLength
             >= snake.trail[Len(snake.trail)].arcLength
        /\ snake'.trail # snake.trail
             => snake'.trail[1].arcLength > snake.trail[1].arcLength]_vars

\* C22 case: frames have put samples in front of a full trail, and the
\* sample of the snake's creation (arcLength 0) has been cut away
C22_OrderedAfterCut ==
  /\ frameCount > 3 + TrailPrefix
  /\ Len(snake.trail) >= maxTrailLength - 1
  /\ snake.trail[Len(snake.trail)].arcLength > 0
  /\ snake.trail[1].arcLength > snake.trail[2].arcLength


\* the segment indices at which calculateSegmentDistance is examined for a
\* length: the first ones, those around the tail boundary 0.7 * length, and
\* those around the number of segments the snake has, up to the indices a
\* call of grow would add
IndexProbes(len) ==
  {i \in (0..12) \cup ((neckSteps(len) - 2)..(neckSteps(len) + 2))
          \cup ((Len(snake.segments) - 2)..(Len(snake.segments) + BIG_LENGTH_BOOST)) :
     i >= 0}

\* C23: calculateSegmentDistance(index) is 0 for index 0 and strictly
\* increasing in index for every fixed length.
C23_DistanceIncreasesWithIndex ==
  \A len \in SpeedProbes :
    /\ calculateSegmentDistance(0, len) = 0
    /\ \A i \in IndexProbes(len) :
         calculateSegmentDistance(i + 1, len) > calculateSegmentDistance(i, len)

\* C23 case: a snake longer than 500 (the logarithmic spacing) with segments
\* on both sides of the tail boundary
C23_LongSnakeWithTail ==
  /\ snake.length > 500 * LU
  /\ neckSteps(snake.length) > 12
  /\ Len(snake.segments) > neckSteps(snake.length) + 2
  /\ calculateSegmentDistance(Len(snake.segments), snake.length)
       > calculateSegmentDistance(neckSteps(snake.length), snake.length)


\* C24: for every fixed segment index, calculateSegmentDistance is
\* non-decreasing in the current length: for all lengths L1 <= L2 and every
\* index i, distance(i, L1) <= distance(i, L2), including across the 100 and
\* 500 regime thresholds and across the 70%-of-length tail boundary.
C24_DistanceGrowsWithLength ==
  \A L1 \in SpeedProbes, L2 \in SpeedProbes :
    L1 <= L2
      => \A i \in IndexProbes(L1) :
           calculateSegmentDistance(i, L1) <= calculateSegmentDistance(i, L2)


\* the first `count` segments of s are where updateSegmentsAlongTrail puts
\* them at length len: segment i at calculateSegmentDistance(i) behind the
\* newest sample, on the trail of s
BodyFollows(s, len, count) ==
  \A i \in 1..count :
    /\ s.segments[i].distance = calculateSegmentDistance(i - 1, len)
    /\ s.segments[i].position = getPositionAtDistance(s, s.segments[i].distance)

\* C25: body follower: at the end of every tick of a live snake, every segment
\* i has distance = calculateSegmentDistance(i) evaluated with the length left
\* by that tick's boost consumption and decay, and position =
\* getPositionAtDistance(that distance) on the trail as extended in that tick.
\* (Pellets collected in the frame grow the snake after the tick: the length
\* left by the tick is the frame's final length less their values, and the
\* segments of the tick are those before the ones they add.)
C25_BodyFollowsTrail ==
  [][TickStep
       => \E pellets \in 0..MaxPellets :
            /\ Len(snake'.segments) >= pellets
            /\ BodyFollows(snake', snake'.length - pellets * PELLET_VALUE * LU,
                           Len(snake'.segments) - pellets)]_vars

\* C25 case: a boosted tick has consumed length and dropped a segment, and
\* the segments left lie at distinct points of the trail
C25_FollowedAfterConsumption ==
  /\ frameCount > 1 + EdgePrefix
  /\ snake.isBoosting
  /\ snake.lengthBurned > 0
  /\ Len(snake.segments) = Floor(snake.length)
  /\ Len(snake.segments) > INITIAL_LENGTH
  /\ BodyFollows(snake, snake.length, Len(snake.segments))
  /\ snake.segments[Len(snake.segments)].position
       # snake.segments[Len(snake.segments) - 1].position


\* C26: in every reachable state the segment sequence is non-empty, segment 0
\* has isHead = true and target distance 0, and no other segment has isHead =
\* true, across any sequence of grow, boost consumption and decay.
C26_HeadSegmentFirst ==
  /\ Len(snake.segments) >= 1
  /\ snake.segments[1].isHead
  /\ snake.segments[1].distance = 0
  /\ \A i \in 2..Len(snake.segments) : ~snake.segments[i].isHead

\* C26 case: the snake was grown past 50 with the debug keys and has since
\* lost segments to boost consumption and, after more than a second of
\* frames, to decay
C26_ShrunkByBoostAndDecay ==
  /\ frameCount > 40
  /\ snake.length > DECAY_FLOOR * LU
  /\ snake.lengthBurned > 0
  /\ snake.decayAccumulator > 0
  /\ Len(snake.segments) = Floor(snake.length)
  /\ snake.segments[1].isHead


\* C27: once isAlive is false, every further update(dt, direction, boost) call
\* is a no-op: position, angle, trail, segments, length, speed, isBoosting,
\* lengthBurned and decayAccumulator are all unchanged, for every input.  The
\* call is made on the snake of every state, dead or dying there (Snake.die),
\* with every step, direction and boost input; and a frame of the game on a
\* dead snake leaves it as it is.
C27_DeadSnakeUnchanged ==
  /\ [](\A deltaTime \in DeltaTimes \cup {0}, turnDirection \in Directions,
           boost \in BOOLEAN :
          LET dead == die(snake)
          IN SnakeUpdate(dead, deltaTime, turnDirection, boost) = dead)
  /\ [][~snake.isAlive /\ events' = events => snake' = snake]_vars

\* C27 case: the head has crossed the right edge of the world while
\* boosting, and the snake is dead with the boost still on
C27_DiedBoosting ==
  /\ ~snake.isAlive
  /\ snake.position.x > (WORLD_WIDTH + WORLD_MARGIN) * PU
  /\ snake.isBoosting
  /\ wantsBoost
  /\ frameCount < EdgeFrames


\* C28: exclusive ownership: every change to the snake's length, segments or
\* trail is made by a Snake method (grow, consumeLength, updateLengthDecay,
\* addToTrail, updateSegmentsAlongTrail); no Game handler or loop step writes
\* these fields directly.  A step that changes one of them is a call of grow
\* (from debugAddLength or debugAddBigLength), a tick (Snake.update, then
\* grow for the pellets), or the construction of a new Snake.
C28_OnlySnakeMethodsWrite ==
  [][(\/ snake'.length # snake.length
      \/ snake'.segments # snake.segments
      \/ snake'.trail # snake.trail)
       => \/ \E amount \in GrowAmounts : snake' = grow(snake, amount)
          \/ TickStep
          \/ snake' = InitialSnake]_vars


\* the snake after the boost consumption and the passive decay of a tick
lengthEconomy(s, deltaTime, boost) ==
  updateLengthDecay(updateBoostSystem(s, deltaTime, boost), deltaTime)

\* the head position after an advance of `step` distance units along angle
advance(position, angle, step) ==
  LET velocity == fromAngle(angle, step)
  IN Vec(position.x + velocity.x, position.y + velocity.y)

C30_GrowAppendsFarther ==
  \A amount \in GrowAmounts :
    LET grown == grow(snake, amount)
        before == Len(snake.segments)
    IN /\ grown.length = snake.length + amount
       /\ \A new \in (before + 1)..Len(grown.segments), old \in 1..before :
            grown.segments[new].distance > grown.segments[old].distance


\* C31: the value scalar is unaffected by the length economy: a tick (boost
\* consumption, decay, growth for the pellets in reach) and a debug key
\* (grow for KeyL and KeyB, the length write of KeyK) leave value as it was;
\* when value changes, the step is addValue(amount) and changes value by
\* exactly amount and nothing else.
C31_ValueOnlyByAddValue ==
  [][/\ (TickStep \/ events' = events + 1) => snake'.value = snake.value
     /\ snake'.value # snake.value
          => \E amount \in RewardAmounts :
               snake' = [snake EXCEPT !.value = snake.value + amount]]_vars

\* C31 case: rewards were credited to a snake that grew by KeyB and a pellet,
\* burned length in a boost and lost length to the passive decay
C31_RewardedThroughEconomy ==
  /\ snake.value = ValueCap
  /\ snake.lengthBurned > 0
  /\ frameCount > 30
  /\ snake.decayAccumulator = 0
  /\ snake.length > DECAY_FLOOR * LU
  /\ snake.length + snake.lengthBurned
       < (INITIAL_LENGTH + 2 * BIG_LENGTH_BOOST + PELLET_VALUE) * LU
  /\ snake.length + snake.lengthBurned > (INITIAL_LENGTH + 2 * BIG_LENGTH_BOOST) * LU


\* C32: while boosting, movement is boosted in every tick that consumes
\* length: in each tick in which consumeLength removes a positive amount of
\* length (lengthBurned rises), the head advances by
\* calculateSpeed(length) * BOOST_SPEED_MULTIPLIER * dt along the new heading,
\* length being the value the consumption (and the decay of that tick) left,
\* including the tick in which length reaches MIN_LENGTH_TO_BOOST.
C32_ConsumingTickIsBoosted ==
  [][TickStep /\ snake'.lengthBurned > snake.lengthBurned
       => \E deltaTime \in DeltaTimes :
            LET economy == lengthEconomy(snake, deltaTime, wantsBoost)
            IN /\ snake'.lengthBurned = economy.lengthBurned
               /\ snake'.position
                    = advance(snake.position, snake'.angle,
                              RoundDiv(calculateSpeed(economy.length)
                                         * BOOST_SPEED_MULTIPLIER * deltaTime,
                                       10 * TU))]_vars


\* desired directions of magnitude below 0.1: no input at all, and two short
\* vectors that point away from the heading of the initial snake
NearZeroDirections == {Vec(0, 0), Vec(0, -60), Vec(-70, -70)}

\* C33: steering ignores near-zero input: a tick whose desired direction has
\* a magnitude below 0.1 leaves the heading angle as it was, while the head
\* still advances along that heading by the step of the tick.  The tick is
\* made on the live snake of every state, with every step and boost input.
C33_NearZeroInputKeepsHeading ==
  snake.isAlive
    => \A deltaTime \in DeltaTimes, turnDirection \in NearZeroDirections,
          boost \in BOOLEAN :
         LET after == SnakeUpdate(snake, deltaTime, turnDirection, boost)
         IN /\ after.angle = snake.angle
            /\ after.position
                 = advance(snake.position, snake.angle,
                           stepLength(lengthEconomy(snake, deltaTime, boost), deltaTime))
            /\ after.position # snake.position

\* C33 case: the snake is turning towards the direction up-left, a tick with
\* a unit vector straight up would turn it further, and the same vector cut
\* to a magnitude of 0.06 leaves the heading alone
C33_ShortVectorWhileTurning ==
  /\ snake.isAlive
  /\ snake.angle < 0
  /\ moveDir = Vec(-707, -707)
  /\ SnakeUpdate(snake, MaxStep, Vec(0, -PU), wantsBoost).angle < snake.angle
  /\ SnakeUpdate(snake, MaxStep, Vec(0, -60), wantsBoost).angle = snake.angle


\* the desired heading of the tick, Math.atan2 of the movement input, and
\* the absolute shortest angular difference from an angle to it
desiredAngle == Atan2(moveDir.y, moveDir.x)
headingError(angle) == Abs(angleDifference(angle, desiredAngle))

\* a tick of the game with frame step deltaTime turned the heading by no
\* more than TURN_RATE * turnMultiplier * deltaTime, with turnMultiplier at
\* least 0.1, and moved the head by the step of that frame
TurnWithinRate(deltaTime) ==
  LET economy == lengthEconomy(snake, deltaTime, wantsBoost)
  IN /\ snake'.position
          = advance(snake.position, snake'.angle, stepLength(economy, deltaTime))
     /\ turnMultiplier(economy.length) >= 100
     /\ Abs(angleDifference(snake.angle, snake'.angle))
          <= effectiveTurnRate(economy.length, deltaTime)

\* C34 as stated: steering never overshoots and converges: with a fixed
\* desired direction, in each tick the heading changes by at most
\* TURN_RATE * turnMultiplier * dt with turnMultiplier >= 0.1, the absolute
\* shortest angular difference to the desired heading strictly decreases
\* until it is 0, the heading then equals the desired angle exactly, and it
\* stays there in later ticks.
C34_SteeringConverges ==
  [][TickStep
       => /\ \E deltaTime \in DeltaTimes \cup {0} : TurnWithinRate(deltaTime)
          /\ headingError(snake.angle) > 0
               => headingError(snake'.angle) < headingError(snake.angle)
          /\ headingError(snake'.angle) = 0 => snake'.angle = desiredAngle
          /\ snake.angle = desiredAngle => snake'.angle = desiredAngle]_vars

\* C34 amended: the same, the difference strictly decreasing in each tick
\* whose frame step is positive; a tick with no time elapsed (the first tick
\* of Game.start) leaves the heading as it was, unless the difference is 0
\* already and the heading is set to the desired angle.
C34_SteeringConvergesInTime ==
  [][TickStep
       => /\ \/ \E deltaTime \in DeltaTimes :
                  /\ TurnWithinRate(deltaTime)
                  /\ headingError(snake.angle) > 0
                       => headingError(snake'.angle) < headingError(snake.angle)
             \/ /\ TurnWithinRate(0)
                /\ headingError(snake.angle) > 0 => snake'.angle = snake.angle
          /\ headingError(snake'.angle) = 0 => snake'.angle = desiredAngle
          /\ snake.angle = desiredAngle => snake'.angle = desiredAngle]_vars

\* C34 case: the player held up-left and then left; the heading went down
\* from 0 past -pi/2 and has reached the desired angle pi from the far side
C34_TurnedThroughPi ==
  /\ moveDir = Vec(-PU, 0)
  /\ snake.angle = desiredAngle
  /\ snake.angle = PI
  /\ snake.position.y < (WORLD_HEIGHT * PU) \div 2 - 20 * PU
  /\ frameCount > TurnAt
  /\ snake.isAlive


\* lengths around the ends and inside the range of the zoom curve
ZoomProbes ==
  {3 * LU, 5 * LU, 5 * LU + 1, 5 * LU + LU \div 100, 6 * LU, 30 * LU, 55 * LU,
   300 * LU, 1000 * LU, 1499 * LU, 1500 * LU - 1, 1500 * LU, 1500 * LU + 1,
   1505 * LU, 1750 * LU, 2000 * LU}

\* C35: camera zoom is capped: for any two lengths both >= 1500 and the same
\* boost state updateCameraZoom sets the same targetZoom; without boosting
\* targetZoom lies in [0.25, BASE_ZOOM] and is non-increasing in length.
\* The lengths compared are the length of the snake of the state and each
\* probe length.
C35_CameraZoomCapped ==
  \A boosting \in BOOLEAN, probe \in ZoomProbes :
    LET here == updateCameraZoom([snake EXCEPT !.isBoosting = boosting])
        there == updateCameraZoom([snake EXCEPT !.isBoosting = boosting,
                                                !.length = probe])
    IN /\ (snake.length >= ZOOM_LENGTH_CAP * LU /\ probe >= ZOOM_LENGTH_CAP * LU)
            => here = there
       /\ ~boosting
            => /\ here >= MIN_ZOOM
               /\ here <= BASE_ZOOM
               /\ probe <= snake.length => there >= here
               /\ probe >= snake.length => there <= here

\* C35 case: the snake has grown past 1500, where the zoom is the minimum,
\* while at length 1499 the camera is still closer
C35_GrownPastZoomCap ==
  /\ snake.length > (ZOOM_LENGTH_CAP + 25) * LU
  /\ updateCameraZoom(snake) = MIN_ZOOM
  /\ updateCameraZoom([snake EXCEPT !.length = 1499 * LU]) > MIN_ZOOM
  /\ updateCameraZoom([snake EXCEPT !.isBoosting = TRUE])
       = (MIN_ZOOM * BOOST_ZOOM_FACTOR) \div 10


\* C36: one tick per frame: over any interleaving of start(), stop(),
\* restart() calls and animation-frame callbacks, at most one gameLoop
\* callback is pending at any time, so that Game.update runs at most once
\* per animation frame.
C36_OneCallbackPending == pending <= 1

\* fractional amounts of Snake.grow: the values of the pellets a dead snake's
\* total is split into
FractionalAmounts == {LU \div 2, (3 * LU) \div 10, LU + (7 * LU) \div 10}

\* C37: there are never fewer segments than the length calls for: in every
\* reachable state, under any sequence of ticks, grow calls and debug key
\* events, segments.length >= floor(length); and a grow call with an integer
\* or a fractional amount, made in any reachable state, leaves it so.
C37_SegmentsCoverFloor ==
  /\ Len(snake.segments) >= Floor(snake.length)
  /\ \A amount \in GrowAmounts \cup FractionalAmounts :
       LET grown == grow(snake, amount)
       IN Len(grown.segments) >= Floor(grown.length)

\* C37 case: boost consumption left a length just below a whole number with
\* floor(length) segments, and grow(0.5) takes the length past that number
\* with exactly the segments it calls for
C37_FractionalGrowthAfterBoost ==
  /\ snake.lengthBurned > 0
  /\ Len(snake.segments) = Floor(snake.length)
  /\ snake.length % LU > LU \div 2
  /\ Floor(snake.length + LU \div 2) = Floor(snake.length) + 1
  /\ Len(grow(snake, LU \div 2).segments) = Floor(snake.length) + 1

\* C38: length never falls below its initial value: in every state reachable
\* through the Game (ticks, pellet growth, debug keys L, B and K),
\* length >= INITIAL_LENGTH = MIN_LENGTH_TO_BOOST = 5.
C38_LengthAtLeastInitial ==
  /\ INITIAL_LENGTH = MIN_LENGTH_TO_BOOST
  /\ snake.length >= INITIAL_LENGTH * LU

\* the span of the retained trail: newest minus oldest arcLength
retainedSpan(s) == s.trail[1].arcLength - s.trail[Len(s.trail)].arcLength

\* the target distance of the last segment
lastTargetDistance(s) == s.segments[Len(s.segments)].distance

\* C39: the retained trail covers the body: at the end of any tick in which
\* the head's cumulative arc length is at least the last segment's target
\* distance, the retained span (newest minus oldest arcLength) is at least
\* that target distance, so that no segment is clamped to the oldest sample
\* although the path it needs was traveled; also after growth.
C39_TrailCoversBody ==
  [][(/\ TickStep
      /\ snake'.trail[1].arcLength >= lastTargetDistance(snake'))
       => retainedSpan(snake') >= lastTargetDistance(snake')]_vars

=============================================================================
